---- MODULE Spec2Model ----
(***************************************************************************)
(* connect-dots deterministic core: proposal merge (build_model.py),       *)
(* consent mutations (consent_mutations.py) and the shared helpers of      *)
(* _lib.py.                                                                *)
(*                                                                         *)
(* Representation.                                                         *)
(*  - A Python str is a sequence of one-character strings, so substring,   *)
(*    strip() and lower() are computed character by character.             *)
(*  - An optional dict key is a sequence of length <= 1: <<>> is "key      *)
(*    absent / None", <<v>> is "key present with value v".                 *)
(*  - An instant is an integer number of half-seconds; isoformat(timespec= *)
(*    "seconds") truncates it to a whole second.                           *)
(*  - A confidence is an integer number of 1/10000.                        *)
(***************************************************************************)
EXTENDS Integers, Sequences, FiniteSets, TLC

VARIABLES modelFile, snapshotFile, diffFile, now, nops, last, retired, call

vars == <<modelFile, snapshotFile, diffFile, now, nops, last, retired, call>>

(***************************************************************************)
(* Bounds of the exploration.                                              *)
(***************************************************************************)
MaxOps == 3
MaxTicks == 1
MaxQuoteLen == 2

(***************************************************************************)
(* Optional values.                                                        *)
(***************************************************************************)
None == <<>>
Some(v) == <<v>>
Has(o) == Len(o) > 0
Get(o) == o[1]

\* Python: o or d   (for an optional whose present values are all truthy)
OrElse(o, d) == IF Has(o) THEN Get(o) ELSE d

(***************************************************************************)
(* Strings.                                                                *)
(***************************************************************************)
UpperChars == <<"A","B","C","D","E","F","G","H","I","J","K","L","M",
                "N","O","P","Q","R","S","T","U","V","W","X","Y","Z">>
LowerChars == <<"a","b","c","d","e","f","g","h","i","j","k","l","m",
                "n","o","p","q","r","s","t","u","v","w","x","y","z">>

LowerChar(c) ==
    IF \E i \in 1..26 : UpperChars[i] = c
    THEN LowerChars[CHOOSE i \in 1..26 : UpperChars[i] = c]
    ELSE c

\* str.lower()
Lower(s) == [i \in 1..Len(s) |-> LowerChar(s[i])]

Whitespace == {" ", "\n", "\t", "\r"}

RECURSIVE LStrip(_)
LStrip(s) ==
    IF s # <<>> /\ Head(s) \in Whitespace THEN LStrip(Tail(s)) ELSE s

RECURSIVE RStrip(_)
RStrip(s) ==
    IF s # <<>> /\ s[Len(s)] \in Whitespace
    THEN RStrip(SubSeq(s, 1, Len(s) - 1))
    ELSE s

\* str.strip()
Strip(s) == RStrip(LStrip(s))

\* Python: q in s
IsSubstr(q, s) ==
    \E i \in 0..(Len(s) - Len(q)) : SubSeq(s, i + 1, i + Len(q)) = q

\* str.startswith
StartsWith(s, p) == Len(p) <= Len(s) /\ SubSeq(s, 1, Len(p)) = p

RECURSIVE Concat(_)
Concat(ss) == IF ss = <<>> THEN <<>> ELSE Head(ss) \o Concat(Tail(ss))

\* file.readlines(): split after every "\n", keeping it
RECURSIVE ReadLinesFrom(_, _)
ReadLinesFrom(s, cur) ==
    IF s = <<>> THEN (IF cur = <<>> THEN <<>> ELSE <<cur>>)
    ELSE IF Head(s) = "\n"
         THEN <<Append(cur, "\n")>> \o ReadLinesFrom(Tail(s), <<>>)
         ELSE ReadLinesFrom(Tail(s), Append(cur, Head(s)))

ReadLines(s) == ReadLinesFrom(s, <<>>)

Digits == <<"0","1","2","3","4","5","6","7","8","9">>
IsDigit(c) == \E i \in 1..10 : Digits[i] = c
DigitVal(c) == (CHOOSE i \in 1..10 : Digits[i] = c) - 1

RECURSIVE IntOf(_)
IntOf(ds) ==
    IF ds = <<>> THEN 0
    ELSE IntOf(SubSeq(ds, 1, Len(ds) - 1)) * 10 + DigitVal(ds[Len(ds)])

(***************************************************************************)
(* _lib.parse_lines_spec: LINES_RE = ^L(\d+)-L(\d+)$, then a > 0, b >= a.  *)
(* ("$" also matches before one trailing newline.)                         *)
(***************************************************************************)
AllDigits(s) == s # <<>> /\ \A i \in 1..Len(s) : IsDigit(s[i])

DropFinalNewline(s) ==
    IF s # <<>> /\ s[Len(s)] = "\n" THEN SubSeq(s, 1, Len(s) - 1) ELSE s

LinesReMatch(s) ==
    LET t == DropFinalNewline(s)
        dashes == {k \in 1..Len(t) : t[k] = "-"}
    IN  IF dashes = {} THEN [ok |-> FALSE, a |-> 0, b |-> 0]
        ELSE LET k == CHOOSE d \in dashes : \A e \in dashes : d <= e
                 g1 == SubSeq(t, 2, k - 1)
                 g2 == SubSeq(t, k + 2, Len(t))
             IN  IF /\ t[1] = "L"
                    /\ AllDigits(g1)
                    /\ k + 1 <= Len(t)
                    /\ t[k + 1] = "L"
                    /\ AllDigits(g2)
                 THEN [ok |-> TRUE, a |-> IntOf(g1), b |-> IntOf(g2)]
                 ELSE [ok |-> FALSE, a |-> 0, b |-> 0]

\* the range test on a match m: a <= 0 or b < a raises ValueError
RangeOf(m) ==
    IF ~m.ok THEN [ok |-> FALSE, a |-> 0, b |-> 0]
    ELSE IF m.a <= 0 \/ m.b < m.a THEN [ok |-> FALSE, a |-> 0, b |-> 0]
    ELSE m

parse_lines_spec(lines) == RangeOf(LinesReMatch(lines))

(***************************************************************************)
(* The file system seen by the verifier.  WorkspaceRoot is --workspace;    *)
(* /w2 is a sibling directory whose name begins with the root's name and   *)
(* /o a file outside the workspace.  There are no symbolic links.          *)
(***************************************************************************)
WorkspaceRoot == <<"/", "w">>

FileTable ==
    { [path |-> <<"/", "w", "/", "m">>,
       content |-> <<"a", "\n", "b", " ", "a", "\n">>],
      [path |-> <<"/", "w", "2", "/", "m">>,
       content |-> <<"a", "\n">>],
      [path |-> <<"/", "o">>,
       content |-> <<"a", "\n">>] }

Directories == { <<"/">>, <<"/", "w">>, <<"/", "w", "2">> }

IsFile(full) == \E f \in FileTable : f.path = full
PathExists(full) == IsFile(full) \/ full \in Directories
FileContent(full) == (CHOOSE f \in FileTable : f.path = full).content

\* split a path at "/"
RECURSIVE SplitFrom(_, _)
SplitFrom(s, cur) ==
    IF s = <<>> THEN <<cur>>
    ELSE IF Head(s) = "/" THEN <<cur>> \o SplitFrom(Tail(s), <<>>)
         ELSE SplitFrom(Tail(s), Append(cur, Head(s)))

SplitPath(p) == SplitFrom(p, <<>>)

\* collapse "", "." and ".." segments (".." at the root stays at the root)
RECURSIVE Normalize(_, _)
Normalize(segs, acc) ==
    IF segs = <<>> THEN acc
    ELSE LET h == Head(segs)
         IN  IF h = <<>> \/ h = <<".">> THEN Normalize(Tail(segs), acc)
             ELSE IF h = <<".", ".">>
                  THEN Normalize(Tail(segs),
                                 IF acc = <<>> THEN acc
                                 ELSE SubSeq(acc, 1, Len(acc) - 1))
                  ELSE Normalize(Tail(segs), Append(acc, h))

RECURSIVE JoinPath(_)
JoinPath(segs) ==
    IF segs = <<>> THEN <<>> ELSE <<"/">> \o Head(segs) \o JoinPath(Tail(segs))

\* str((workspace / p).resolve())
ResolveUnder(ws, p) ==
    LET joined == IF p # <<>> /\ Head(p) = "/" THEN p ELSE ws \o <<"/">> \o p
        segs == Normalize(SplitPath(joined), <<>>)
    IN  IF segs = <<>> THEN <<"/">> ELSE JoinPath(segs)

(***************************************************************************)
(* _lib.verify_evidence_sources.  An evidence entry is                     *)
(* [path, lines, quote, ts]; a missing path/lines/quote key is <<>>,       *)
(* which the code treats like the empty string.                            *)
(***************************************************************************)
\* (mutant) the cited range is sliced one line too far
CitedSnippetOneLineMore(lines, a, b) ==
    Concat(SubSeq(lines, a, IF b < Len(lines) THEN b + 1 ELSE b))

\* "".join(lines[a - 1 : b])
CitedSnippet(lines, a, b) == Concat(SubSeq(lines, a, b))

\* the range fits the file and the quote is in the cited lines
QuoteInRange(quote, r, lines) ==
    /\ r.b <= Len(lines)
    /\ IsSubstr(quote, CitedSnippet(lines, r.a, r.b))

\* the checks on one entry: ws and full are the resolved workspace and
\* file, r the parsed lines spec, quote the stripped quote
EntryChecks(p, ws, full, r, quote) ==
    /\ p # <<>>
    /\ StartsWith(full, ws)
    /\ PathExists(full)
    /\ r.ok
    /\ quote # <<>>
    /\ IsFile(full)
    /\ QuoteInRange(quote, r, ReadLines(FileContent(full)))

VerifyEntry(ev, workspace) ==
    EntryChecks(ev.path,
                ResolveUnder(<<"/">>, workspace),
                ResolveUnder(workspace, ev.path),
                parse_lines_spec(ev.lines),
                Strip(ev.quote))

\* (mutant) a bad entry is skipped as long as another one is good
verify_evidence_sources_skipping(evidence, workspace) ==
    evidence = <<>> \/ \E i \in 1..Len(evidence) : VerifyEntry(evidence[i], workspace)

\* TRUE iff the call returns normally (no SystemExit, no exception)
verify_evidence_sources(evidence, workspace) ==
    \A i \in 1..Len(evidence) : VerifyEntry(evidence[i], workspace)

(***************************************************************************)
(* Time.  datetime values are half-second counts since the start of the    *)
(* exploration; isoformat(timespec="seconds") drops the sub-second part    *)
(* and fromisoformat gives back the truncated instant.                     *)
(***************************************************************************)
TicksPerSec == 2
SecondsPerDay == 86400
Day == SecondsPerDay * TicksPerSec
StartTime == TicksPerSec - 1
TickStep == (2 * Day) + 1

IsoFormat(t) == t - (t % TicksPerSec)

\* _lib.now_iso
now_iso(t) == IsoFormat(t)

\* "9999-12-31T00:00:00+00:00" (the largest representable instant)
FarFuture == 2147483646

Min(a, b) == IF a <= b THEN a ELSE b
Max(a, b) == IF a >= b THEN a ELSE b

(***************************************************************************)
(* _lib.clamp, compute_recency_days, confidence_formula.                   *)
(* A ts is [kind, t]: "none" (missing/empty), "iso" (parses to t, with a   *)
(* UTC offset), "naive" (parses to t, without an offset) or "bad"          *)
(* (parse_iso falls back to the current time).                             *)
(***************************************************************************)
\* (mutant) the value is passed through
clamp_unbounded(x, lo, hi) == x

clamp(x, lo, hi) == Max(lo, Min(hi, x))

TsNone == [kind |-> "none", t |-> 0]
TsIso(t) == [kind |-> "iso", t |-> t]
TsBad == [kind |-> "bad", t |-> 0]
TsNaive(t) == [kind |-> "naive", t |-> t]

\* _lib.parse_iso
parse_iso(ts, clock) == IF ts.kind \in {"iso", "naive"} THEN ts.t ELSE clock

\* compute_recency_days raises TypeError: a datetime without an offset is
\* compared with, or subtracted from, one that has an offset (now has one)
RecencyRaises(evidence) ==
    \E i \in 1..Len(evidence) : evidence[i].ts.kind = "naive"

NoRecency == 9999

\* whole days of age of the newest evidence timestamp, NoRecency if none
compute_recency_days(evidence, t) ==
    LET stamped == {i \in 1..Len(evidence) : evidence[i].ts.kind # "none"}
    IN  IF stamped = {} THEN NoRecency
        ELSE LET best == CHOOSE b \in {parse_iso(evidence[i].ts, t) : i \in stamped} :
                             \A i \in stamped : parse_iso(evidence[i].ts, t) <= b
             IN  Max(0, (t - best) \div Day)

\* round(10000 * 0.25 * exp(-d / 7)) for d = 0, 1, 2, ... whole days
RecencyTable ==
    <<2500, 2167, 1879, 1629, 1412, 1224, 1061, 920, 797, 691, 599, 519,
      450, 390, 338, 293, 254, 220, 191, 166, 144, 124, 108, 94, 81, 70,
      61, 53, 46, 40, 34, 30, 26, 22, 19, 17, 15, 13, 11, 10, 8, 7, 6, 5,
      5, 4, 3, 3, 3, 2, 2, 2, 1, 1, 1, 1, 1, 1, 1, 1>>

RecScore(rec_days) ==
    IF rec_days >= NoRecency THEN 0
    ELSE IF rec_days + 1 <= Len(RecencyTable) THEN RecencyTable[rec_days + 1]
    ELSE 0

ConfBase == 2000
ConfPerSource == 1200
ConfAgreement == 1500
ConfConfirmBonus == 2000
ConfConflictPen == 2500
ConfMin == 500
ConfMax == 9900
SourcesCap == 5

confidence_formula(evidence, user_confirmed, conflicts, t) ==
    LET sources == Len(evidence)
        sources_cap == Min(SourcesCap, sources)
        rec_score == RecScore(compute_recency_days(evidence, t))
        agreement == IF sources >= 2 THEN ConfAgreement ELSE 0
        confirm_bonus == IF user_confirmed THEN ConfConfirmBonus ELSE 0
        conflict_pen == IF conflicts THEN ConfConflictPen ELSE 0
    IN  clamp(ConfBase + (ConfPerSource * sources_cap) + rec_score + agreement
                + confirm_bonus - conflict_pen,
              ConfMin, ConfMax)

(***************************************************************************)
(* Items.  One record shape serves proposal items, items being merged and  *)
(* persisted items; every key the code reads with .get() is optional.      *)
(***************************************************************************)
BlankItem ==
    [ id |-> "", statement |-> None, fact |-> None, value |-> None,
      domain |-> None, evidence |-> <<>>, ttl_days |-> None,
      user_confirmed |-> None, conflicts |-> None,
      first_seen |-> None, last_seen |-> None, expires_at |-> None,
      last_confirmed |-> None, status |-> None, confidence |-> None,
      keep_first_seen |-> None, refreshed |-> None ]

\* Python truthiness of optional values
TruthyText(o) == Has(o) /\ Get(o) # <<>>
TruthyStr(o) == Has(o) /\ Get(o) # ""
TruthyInt(o) == Has(o) /\ Get(o) # 0
TruthyBool(o) == Has(o) /\ Get(o)

\* it.get("statement") or it.get("fact") or ""
TextOf(it) ==
    IF TruthyText(it.statement) THEN Get(it.statement)
    ELSE IF TruthyText(it.fact) THEN Get(it.fact)
    ELSE <<>>

Ids(items) == {items[i].id : i \in 1..Len(items)}

\* _lib.index_by_id then .get(id): the last item carrying the id
HasId(items, id) == id # "" /\ \E i \in 1..Len(items) : items[i].id = id
LastWithId(items, id) ==
    items[CHOOSE i \in 1..Len(items) :
            /\ items[i].id = id
            /\ \A j \in 1..Len(items) : items[j].id = id => j <= i]

\* _lib.matches_do_not_store (TRUE iff some rule is returned)
RuleMatches(pat, t) == pat # <<>> /\ IsSubstr(pat, t)

matches_do_not_store(text, dns) ==
    \E i \in 1..Len(dns) : RuleMatches(Lower(dns[i].pattern), Lower(text))

\* _lib.drop_retracted
drop_retracted(items) ==
    SelectSeq(items, LAMBDA it : it.status # Some("retracted"))

\* _lib.ensure_model_skeleton
ensure_model_skeleton(scope, t) ==
    [ scope |-> scope, updatedAt |-> now_iso(t),
      confirmed_facts |-> <<>>, hypotheses |-> <<>>, stale_items |-> <<>>,
      open_loops |-> <<>>, candidate_moves |-> <<>>, do_not_store |-> <<>> ]

(***************************************************************************)
(* build_model._merge_list                                                 *)
(***************************************************************************)
MergeProposed(current, p) ==
    LET existing == HasId(current, p.id)
        keep_first == IF existing THEN LastWithId(current, p.id).first_seen ELSE None
        keep_domain == IF existing THEN LastWithId(current, p.id).domain ELSE None
    IN  [p EXCEPT !.domain = IF TruthyStr(keep_domain) /\ ~TruthyStr(p.domain)
                             THEN keep_domain ELSE p.domain,
                  !.keep_first_seen = Some(keep_first),
                  !.refreshed = Some(TRUE)]

_merge_list(current, proposed) ==
    LET withId == SelectSeq(proposed, LAMBDA p : p.id # "")
        proposed_ids == Ids(proposed)
        carried == SelectSeq(current,
                             LAMBDA it : it.id # "" /\ it.id \notin proposed_ids)
    IN  [i \in 1..Len(withId) |-> MergeProposed(current, withId[i])]
        \o [i \in 1..Len(carried) |-> [carried[i] EXCEPT !.refreshed = Some(FALSE)]]

(***************************************************************************)
(* build_model.process_section: the per-item normalisation (after the      *)
(* do-not-store filter and the evidence check), including                  *)
(* _lib.normalize_item_common for refreshed non-fact items.                *)
(***************************************************************************)
DefaultTtlDays(section) ==
    CASE section = "confirmed_facts" -> 365
      [] section = "hypotheses" -> 21
      [] section = "open_loops" -> 14
      [] OTHER -> 7

\* now_dt + timedelta(days=max(1, int(ttl_days or default))), as isoformat
ExpiryFor(it, default_ttl_days, t) ==
    LET ttl_days == IF TruthyInt(it.ttl_days) THEN Get(it.ttl_days)
                    ELSE default_ttl_days
    IN  IsoFormat(t + (Max(1, ttl_days) * Day))

SetDefault(o, d) == IF Has(o) THEN o ELSE Some(d)

\* (mutant) the two markers stay on the item
PopMarkersKept(it) == it

PopMarkers(it) == [it EXCEPT !.keep_first_seen = None, !.refreshed = None]

KeepFirstOf(it) ==
    IF Has(it.keep_first_seen) THEN Get(it.keep_first_seen) ELSE None

ProcessFact(it, default_ttl_days, t) ==
    LET keep_first == KeepFirstOf(it)
        refreshed == TruthyBool(it.refreshed)
        o0 == PopMarkers(it)
        o1 == [o0 EXCEPT
                 !.confidence = SetDefault(@, ConfMax),
                 !.first_seen = SetDefault(@, OrElse(keep_first, IsoFormat(t)))]
        o2 == IF refreshed
              THEN [o1 EXCEPT !.last_seen = Some(IsoFormat(t)),
                              !.ttl_days = None,
                              !.expires_at = Some(ExpiryFor(o1, default_ttl_days, t))]
              ELSE [o1 EXCEPT !.last_seen = SetDefault(@, IsoFormat(t)),
                              !.expires_at = SetDefault(@, FarFuture)]
    IN  [o2 EXCEPT !.last_confirmed = SetDefault(@, Get(o2.last_seen)),
                   !.status = SetDefault(@, "active")]

normalize_item_common(item, t, default_ttl_days, keep_first_seen) ==
    [item EXCEPT
       !.first_seen = SetDefault(@, OrElse(keep_first_seen, IsoFormat(t))),
       !.last_seen = Some(IsoFormat(t)),
       !.ttl_days = None,
       !.expires_at = Some(ExpiryFor(item, default_ttl_days, t)),
       !.status = SetDefault(@, "active")]

CarriedConfDefault == 2000

\* (mutant) a carried item is normalised like a refreshed one
ProcessNonFactRenewsCarried(it, default_ttl_days, t) ==
    [normalize_item_common(PopMarkers(it), t, default_ttl_days, KeepFirstOf(it))
        EXCEPT !.confidence = SetDefault(@, CarriedConfDefault)]

ProcessNonFact(it, default_ttl_days, t) ==
    LET keep_first == KeepFirstOf(it)
        refreshed == TruthyBool(it.refreshed)
        o0 == PopMarkers(it)
    IN  IF refreshed
        THEN [normalize_item_common(o0, t, default_ttl_days, keep_first) EXCEPT
                !.confidence = Some(confidence_formula(o0.evidence,
                                                       TruthyBool(o0.user_confirmed),
                                                       TruthyBool(o0.conflicts), t)),
                !.user_confirmed = None,
                !.conflicts = None]
        ELSE [o0 EXCEPT
                !.first_seen = SetDefault(@, OrElse(keep_first, IsoFormat(t))),
                !.last_seen = SetDefault(@, IsoFormat(t)),
                !.expires_at = SetDefault(@, IsoFormat(t)),
                !.status = SetDefault(@, "active"),
                !.confidence = SetDefault(@, CarriedConfDefault)]

ProcessItem(it, section, t) ==
    IF section = "confirmed_facts"
    THEN ProcessFact(it, DefaultTtlDays(section), t)
    ELSE ProcessNonFact(it, DefaultTtlDays(section), t)

\* confidence_formula is called for the refreshed items of the non-fact
\* sections
ScoringRaises(it, section) ==
    /\ section # "confirmed_facts"
    /\ TruthyBool(it.refreshed)
    /\ RecencyRaises(it.evidence)

\* the items that pass the do-not-store filter
Survivors(items, dns) ==
    SelectSeq(items, LAMBDA it : ~matches_do_not_store(TextOf(it), dns))

\* (mutant) only the refreshed items have their evidence verified
ProcessKeptRefreshedOnly(kept, section, verify_sources, t) ==
    [ ok |-> /\ ~verify_sources
                \/ \A i \in 1..Len(kept) :
                       TruthyBool(kept[i].refreshed) =>
                           verify_evidence_sources(kept[i].evidence, WorkspaceRoot)
             /\ \A i \in 1..Len(kept) : ~ScoringRaises(kept[i], section),
      items |-> [i \in 1..Len(kept) |-> ProcessItem(kept[i], section, t)] ]

\* the loop body past the do-not-store filter, over the items that passed
\* it; ok is FALSE when verify_evidence_sources or confidence_formula raised
ProcessKept(kept, section, verify_sources, t) ==
    [ ok |-> /\ ~verify_sources
                \/ \A i \in 1..Len(kept) :
                       verify_evidence_sources(kept[i].evidence, WorkspaceRoot)
             /\ \A i \in 1..Len(kept) : ~ScoringRaises(kept[i], section),
      items |-> [i \in 1..Len(kept) |-> ProcessItem(kept[i], section, t)] ]

\* (mutant) the evidence of every item is verified before the filter
process_section_verifying_first(items, section, dns, verify_sources, t) ==
    [ ok |-> ProcessKept(items, section, verify_sources, t).ok,
      items |-> ProcessKept(Survivors(items, dns), section, verify_sources, t).items ]

\* [ok, items]: ok is FALSE when the loop raised
process_section(items, section, dns, verify_sources, t) ==
    ProcessKept(Survivors(items, dns), section, verify_sources, t)

(***************************************************************************)
(* build_model: TTL decay and stale de-duplication.                        *)
(***************************************************************************)
StaleConfCap == 3500

\* (mutant) the comparison raises and the handler answers "not expired"
is_expired_swallowed(it, t) == Has(it.expires_at) /\ FALSE

is_expired(it, t) == Has(it.expires_at) /\ t > Get(it.expires_at)

IsRetracted(it) == it.status = Some("retracted")

Demote(it) ==
    IF IsRetracted(it) THEN it
    ELSE [it EXCEPT !.status = Some("stale"),
                    !.confidence = Some(Min(OrElse(@, 0), StaleConfCap))]

\* move_to_stale(section): what stays, and what is appended to stale
\* (mutant) the expired items stay in their section
StaysActiveThoughExpired(items, t) ==
    SelectSeq(items, LAMBDA it : ~IsRetracted(it))

StaysActive(items, t) ==
    SelectSeq(items, LAMBDA it : ~IsRetracted(it) /\ ~is_expired(it, t))

\* (mutant) only the expired items are copied to the trail
MovedToStaleExpiredOnly(items, t) ==
    LET gone == SelectSeq(items, LAMBDA it : ~IsRetracted(it) /\ is_expired(it, t))
    IN  [i \in 1..Len(gone) |-> Demote(gone[i])]

MovedToStale(items, t) ==
    LET gone == SelectSeq(items, LAMBDA it : IsRetracted(it) \/ is_expired(it, t))
    IN  [i \in 1..Len(gone) |-> Demote(gone[i])]

\* (it.get("last_seen") or ""), compared as text of one fixed format
LastSeenKey(it) == OrElse(it.last_seen, -1)

\* the first position holding the id
IndexOfId(items, id) ==
    CHOOSE i \in 1..Len(items) :
        items[i].id = id /\ \A j \in 1..(i - 1) : items[j].id # id

\* (mutant) the first entry of an id is kept whatever comes later
RECURSIVE DedupeStaleKeepFirst(_, _)
DedupeStaleKeepFirst(stale, by_id) ==
    IF stale = <<>> THEN by_id
    ELSE IF Head(stale).id = "" \/ HasId(by_id, Head(stale).id)
         THEN DedupeStaleKeepFirst(Tail(stale), by_id)
         ELSE DedupeStaleKeepFirst(Tail(stale), Append(by_id, Head(stale)))

RECURSIVE DedupeStale(_, _)
DedupeStale(stale, by_id) ==
    IF stale = <<>> THEN by_id
    ELSE LET it == Head(stale)
         IN  IF it.id = "" THEN DedupeStale(Tail(stale), by_id)
             ELSE IF ~HasId(by_id, it.id)
                  THEN DedupeStale(Tail(stale), Append(by_id, it))
             ELSE IF LastSeenKey(it) > LastSeenKey(by_id[IndexOfId(by_id, it.id)])
                  THEN DedupeStale(Tail(stale),
                                   [by_id EXCEPT ![IndexOfId(by_id, it.id)] = it])
             ELSE DedupeStale(Tail(stale), by_id)

(***************************************************************************)
(* Schema Gate (_lib.validate_or_die).  The schema documents               *)
(* references/model.schema.json and references/proposal.schema.json are    *)
(* data files; the two predicates below state what they require of the     *)
(* fields this model carries.                                              *)
(***************************************************************************)
Statuses == {"active", "stale", "retracted"}

ProposalItemOk(it, section) ==
    /\ it.id # ""
    /\ IF section = "confirmed_facts" THEN TruthyText(it.fact)
       ELSE TruthyText(it.statement)

ProposalSchemaOk(p) ==
    \A sec \in {"confirmed_facts", "hypotheses", "open_loops", "candidate_moves"} :
        \A i \in 1..Len(p.items[sec]) : ProposalItemOk(p.items[sec][i], sec)

ModelItemOk(it) ==
    /\ it.id # ""
    /\ Has(it.status) /\ Get(it.status) \in Statuses
    /\ Has(it.expires_at)
    /\ Has(it.confidence)

AllSections ==
    {"confirmed_facts", "hypotheses", "open_loops", "candidate_moves", "stale_items"}
ActiveSections == {"confirmed_facts", "hypotheses", "open_loops", "candidate_moves"}
DecaySections == {"hypotheses", "open_loops", "candidate_moves"}

ModelSchemaOk(m) ==
    \A sec \in AllSections : \A i \in 1..Len(m[sec]) : ModelItemOk(m[sec][i])

(***************************************************************************)
(* build_model.main up to the final validation: [ok, model, why].          *)
(* prev and proposal are optional (file missing = None).                   *)
(***************************************************************************)
Failed(why, m) == [ok |-> FALSE, why |-> why, model |-> m]

\* process_section over the four active sections
ProcessedSections(base, items, verify_sources, t) ==
    [sec \in ActiveSections |->
        process_section(_merge_list(base[sec], items[sec]), sec,
                        base.do_not_store, verify_sources, t)]

\* (mutant) the decay pass runs over confirmed_facts as well
DecayedModelWithFacts(base, done, t) ==
    [base EXCEPT
        !.updatedAt = now_iso(t),
        !.confirmed_facts = StaysActive(done["confirmed_facts"].items, t),
        !.hypotheses = StaysActive(done["hypotheses"].items, t),
        !.open_loops = StaysActive(done["open_loops"].items, t),
        !.candidate_moves = StaysActive(done["candidate_moves"].items, t),
        !.stale_items =
            DedupeStale(base.stale_items
                          \o MovedToStale(done["confirmed_facts"].items, t)
                          \o MovedToStale(done["hypotheses"].items, t)
                          \o MovedToStale(done["open_loops"].items, t)
                          \o MovedToStale(done["candidate_moves"].items, t),
                        <<>>)]

\* move_to_stale over the three decaying sections, then the stale dedupe
DecayedModel(base, done, t) ==
    [base EXCEPT
        !.updatedAt = now_iso(t),
        !.confirmed_facts = done["confirmed_facts"].items,
        !.hypotheses = StaysActive(done["hypotheses"].items, t),
        !.open_loops = StaysActive(done["open_loops"].items, t),
        !.candidate_moves = StaysActive(done["candidate_moves"].items, t),
        !.stale_items =
            DedupeStale(base.stale_items
                          \o MovedToStale(done["hypotheses"].items, t)
                          \o MovedToStale(done["open_loops"].items, t)
                          \o MovedToStale(done["candidate_moves"].items, t),
                        <<>>)]

\* (mutant) the merged model is accepted without validation
ValidationSkipped(model) == [ok |-> TRUE, why |-> "", model |-> model]

\* validate_or_die(model, model_schema)
Validated(model) ==
    IF ~ModelSchemaOk(model) THEN Failed("model schema", model)
    ELSE [ok |-> TRUE, why |-> "", model |-> model]

\* (mutant) the merged model starts from an empty rule list
MergeSectionsWithoutRules(base, done, t) ==
    IF \E sec \in ActiveSections : ~done[sec].ok THEN Failed("evidence", base)
    ELSE Validated(DecayedModel([base EXCEPT !.do_not_store = <<>>], done, t))

MergeSections(base, done, t) ==
    IF \E sec \in ActiveSections : ~done[sec].ok THEN Failed("evidence", base)
    ELSE Validated(DecayedModel(base, done, t))

MergedModel(prev, proposal, scope, verify_sources, t) ==
    MergeSections(
        IF Has(prev) THEN Get(prev) ELSE ensure_model_skeleton(scope, t),
        ProcessedSections(
            IF Has(prev) THEN Get(prev) ELSE ensure_model_skeleton(scope, t),
            proposal.items, verify_sources, t),
        t)

build_model(prev, proposal, scope, verify_sources, t) ==
    IF ~Has(proposal) THEN Failed("proposal missing", BlankItem)
    ELSE IF ~ProposalSchemaOk(Get(proposal)) THEN Failed("proposal schema", BlankItem)
    ELSE IF Get(proposal).scope # scope THEN Failed("scope mismatch", BlankItem)
    ELSE MergedModel(prev, Get(proposal), scope, verify_sources, t)

(***************************************************************************)
(* build_model.main: the --diff-out text.  A line is [tag, text, id]: the  *)
(* code prints the statement, else the fact, else the id.                  *)
(***************************************************************************)
DiffCap == 10

Take(s, n) == SubSeq(s, 1, Min(n, Len(s)))

\* keys of index_by_id(items), in insertion order
RECURSIVE IndexKeys(_, _)
IndexKeys(items, acc) ==
    IF items = <<>> THEN acc
    ELSE LET id == Head(items).id
         IN  IF id = "" \/ \E i \in 1..Len(acc) : acc[i] = id
             THEN IndexKeys(Tail(items), acc)
             ELSE IndexKeys(Tail(items), Append(acc, id))

DiffLine(tag, it) == [tag |-> tag, text |-> TextOf(it), id |-> it.id]

\* the file says "(no material changes)" when no line was produced
DiffText(lines) ==
    IF lines = <<>> THEN <<[tag |-> "(no material changes)", text |-> <<>>, id |-> ""]>>
    ELSE lines

DiffLines(prev, cur) ==
    LET prevItems == prev.hypotheses \o prev.confirmed_facts
        curItems == cur.hypotheses \o cur.confirmed_facts
        keys == IndexKeys(curItems, <<>>)
        added == SelectSeq(keys, LAMBDA k : ~HasId(prevItems, k))
        retracted == SelectSeq(keys, LAMBDA k : IsRetracted(LastWithId(curItems, k)))
        updated == SelectSeq(keys, LAMBDA k :
                       /\ HasId(prevItems, k)
                       /\ \/ LastWithId(curItems, k).statement
                               # LastWithId(prevItems, k).statement
                          \/ LastWithId(curItems, k).confidence
                               # LastWithId(prevItems, k).confidence)
        lines == [i \in 1..Len(Take(added, DiffCap)) |->
                     DiffLine("+", LastWithId(curItems, added[i]))]
                 \o [i \in 1..Len(updated) |->
                     DiffLine("~", LastWithId(curItems, updated[i]))]
                 \o [i \in 1..Len(Take(retracted, DiffCap)) |->
                     DiffLine("-", LastWithId(curItems, retracted[i]))]
    IN  DiffText(lines)

(***************************************************************************)
(* consent_mutations._find_item and main up to the final validation.       *)
(* Arguments: id is "" and pattern/match/fact are <<>> when not given.     *)
(***************************************************************************)
FindOrder ==
    <<"hypotheses", "stale_items", "open_loops", "candidate_moves", "confirmed_facts">>

ConfirmStrip == {"hypotheses", "stale_items", "open_loops", "candidate_moves"}

\* the k-th section scanned holds the id
HoldsId(model, k, item_id) ==
    \E i \in 1..Len(model[FindOrder[k]]) : model[FindOrder[k]][i].id = item_id

\* the first section, in scan order, that holds the id
FirstSection(model, item_id) ==
    FindOrder[CHOOSE k \in 1..Len(FindOrder) :
                 /\ HoldsId(model, k, item_id)
                 /\ \A g \in 1..(k - 1) : ~HoldsId(model, g, item_id)]

FoundIn(model, sec, item_id) ==
    [found |-> TRUE, section |-> sec, index |-> IndexOfId(model[sec], item_id)]

\* [found, section, index] of the first item with the id
_find_item(model, item_id) ==
    IF \E k \in 1..Len(FindOrder) : HoldsId(model, k, item_id)
    THEN FoundIn(model, FirstSection(model, item_id), item_id)
    ELSE [found |-> FALSE, section |-> "", index |-> 0]

\* (mutant) retracted entries are dropped from stale_items as well
DropRetractedEverywhere(out) ==
    [out EXCEPT !.hypotheses = drop_retracted(@),
                !.open_loops = drop_retracted(@),
                !.candidate_moves = drop_retracted(@),
                !.stale_items = drop_retracted(@)]

DropRetractedFromActive(out) ==
    [out EXCEPT !.hypotheses = drop_retracted(@),
                !.open_loops = drop_retracted(@),
                !.candidate_moves = drop_retracted(@)]

\* a SystemExit: out is the in-memory document at that point
ConsentFailed(why, out) == [ok |-> FALSE, why |-> why, out |-> out, retracted |-> {}]

\* validate_or_die(out, schema) on the document about to be written
ConsentValidated(final, ids) ==
    IF ModelSchemaOk(final)
    THEN [ok |-> TRUE, why |-> "", out |-> final, retracted |-> ids]
    ELSE ConsentFailed("model schema", final)

ConsentDone(out, ids) == ConsentValidated(DropRetractedFromActive(out), ids)

\* (mutant) the new rule takes the place of the list
DontStoreReplacing(out, a, t) ==
    IF a.pattern = <<>> THEN ConsentFailed("dont-store requires --pattern", out)
    ELSE ConsentDone(
           [out EXCEPT !.do_not_store =
               <<[pattern |-> a.pattern, created_at |-> now_iso(t),
                  domain |-> a.domain, note |-> a.note]>>],
           {})

DontStore(out, a, t) ==
    IF a.pattern = <<>> THEN ConsentFailed("dont-store requires --pattern", out)
    ELSE ConsentDone(
           [out EXCEPT !.do_not_store =
               Append(@, [pattern |-> a.pattern, created_at |-> now_iso(t),
                          domain |-> a.domain, note |-> a.note])],
           {})

\* f is the result of _find_item
RetractFound(out, f, item_id) ==
    IF ~f.found THEN ConsentFailed("id not found", out)
    ELSE ConsentDone(
           [out EXCEPT ![f.section][f.index].status = Some("retracted")],
           {item_id})

RetractById(out, a, what) ==
    IF a.id = "" THEN ConsentFailed(what, out)
    ELSE RetractFound(out, _find_item(out, a.id), a.id)

MatchesNeedle(it, needle) == IsSubstr(needle, Lower(TextOf(it)))

RetractMatching(items, needle) ==
    [i \in 1..Len(items) |->
        IF MatchesNeedle(items[i], needle)
        THEN [items[i] EXCEPT !.status = Some("retracted")]
        ELSE items[i]]

\* needle is args.match.lower()
ForgetMatching(out, needle) ==
    IF ~\E sec \in AllSections : \E i \in 1..Len(out[sec]) :
            MatchesNeedle(out[sec][i], needle)
    THEN ConsentFailed("no matches", out)
    ELSE ConsentDone(
           [out EXCEPT !.hypotheses = RetractMatching(@, needle),
                       !.stale_items = RetractMatching(@, needle),
                       !.open_loops = RetractMatching(@, needle),
                       !.candidate_moves = RetractMatching(@, needle),
                       !.confirmed_facts = RetractMatching(@, needle)],
           UNION {{out[sec][i].id :
                     i \in {j \in 1..Len(out[sec]) :
                               MatchesNeedle(out[sec][j], needle)}} :
                  sec \in AllSections})

ForgetByMatch(out, a) == ForgetMatching(out, Lower(a.match))

Forget(out, a) ==
    IF a.id = "" /\ a.match = <<>> THEN ConsentFailed("forget requires --id or --match", out)
    ELSE IF a.id # "" THEN RetractById(out, a, "")
    ELSE ForgetByMatch(out, a)

\* (mutant) the promoted fact keeps the source item's confidence
PromotedFactKeepsConfidence(it, a, fact, t) ==
    [BlankItem EXCEPT
        !.id = a.id,
        !.fact = Some(fact),
        !.value = a.value,
        !.domain = Some(OrElse(it.domain, "")),
        !.confidence = it.confidence,
        !.first_seen = Some(OrElse(it.first_seen, now_iso(t))),
        !.last_seen = Some(now_iso(t)),
        !.last_confirmed = Some(now_iso(t)),
        !.expires_at = Some(OrElse(it.expires_at, FarFuture)),
        !.status = Some("active"),
        !.evidence = it.evidence]

PromotedFact(it, a, fact, t) ==
    [BlankItem EXCEPT
        !.id = a.id,
        !.fact = Some(fact),
        !.value = a.value,
        !.domain = Some(OrElse(it.domain, "")),
        !.confidence = Some(ConfMax),
        !.first_seen = Some(OrElse(it.first_seen, now_iso(t))),
        !.last_seen = Some(now_iso(t)),
        !.last_confirmed = Some(now_iso(t)),
        !.expires_at = Some(OrElse(it.expires_at, FarFuture)),
        !.status = Some("active"),
        !.evidence = it.evidence]

WithoutId(items, id) == SelectSeq(items, LAMBDA x : x.id # id)

\* it is the item _find_item located
ConfirmItem(out, a, it, t) ==
    LET fact == IF a.fact # <<>> THEN Some(a.fact) ELSE it.statement
    IN  IF ~TruthyText(fact)
        THEN ConsentFailed("confirm requires --fact or statement", out)
        ELSE ConsentDone(
               [out EXCEPT
                  !.hypotheses = WithoutId(@, a.id),
                  !.stale_items = WithoutId(@, a.id),
                  !.open_loops = WithoutId(@, a.id),
                  !.candidate_moves = WithoutId(@, a.id),
                  !.confirmed_facts =
                      Append(@, PromotedFact(it, a, Get(fact), t))],
               {})

ConfirmFound(out, a, f, t) ==
    IF ~f.found THEN ConsentFailed("id not found", out)
    ELSE ConfirmItem(out, a, out[f.section][f.index], t)

Confirm(out, a, t) ==
    IF a.id = "" THEN ConsentFailed("confirm requires --id", out)
    ELSE ConfirmFound(out, a, _find_item(out, a.id), t)

\* the branch on --op, over the loaded document
Mutate(out, a, t) ==
    CASE a.op = "dont-store" -> DontStore(out, a, t)
      [] a.op = "deny" -> RetractById(out, a, "deny requires --id")
      [] a.op = "forget" -> Forget(out, a)
      [] OTHER -> Confirm(out, a, t)

consent_mutations(model, a, t) ==
    IF ~Has(model) THEN ConsentFailed("model not found or empty", BlankItem)
    ELSE Mutate([Get(model) EXCEPT !.updatedAt = now_iso(t)], a, t)

(***************************************************************************)
(* Inputs of the exploration: evidence, proposal items, proposals and      *)
(* command lines.                                                          *)
(***************************************************************************)
TargetScope == "user-profile/preferences"
OtherScope == "openclaw-runtime/ops"

TxtOk == <<"o", "k">>
TxtSecret == <<"a", " ", "S", "e", "c">>
TxtFact == <<"f">>
PatSec == <<"s", "e", "c">>
NeedleOk == <<"O", "K">>
NeedleNone == <<"z">>

PathM == <<"m">>
L1L1 == <<"L", "1", "-", "L", "1">>
L1L2 == <<"L", "1", "-", "L", "2">>

EvGood == [path |-> PathM, lines |-> L1L2, quote |-> <<"a">>, ts |-> TsIso(0)]
EvPadded == [path |-> PathM, lines |-> L1L1, quote |-> <<"a", " ">>, ts |-> TsNone]
EvBad == [path |-> PathM, lines |-> L1L1, quote |-> <<"b">>, ts |-> TsNone]
EvNaive == [path |-> PathM, lines |-> L1L2, quote |-> <<"a">>, ts |-> TsNaive(0)]

Hyp(id, text, evidence, ttl) ==
    [BlankItem EXCEPT !.id = id, !.statement = Some(text),
                      !.evidence = evidence, !.ttl_days = ttl]

H1 == Hyp("h1", TxtOk, <<EvGood>>, Some(1))
H1Secret == Hyp("h1", TxtSecret, <<EvGood>>, Some(1))
\* a suppressed text with evidence that does not verify
H1SecretBad == Hyp("h1", TxtSecret, <<EvBad>>, Some(1))
H1Retracted == [H1 EXCEPT !.status = Some("retracted")]
H1Bogus == [H1 EXCEPT !.status = Some("archived")]
H2 == Hyp("h2", TxtOk, <<EvGood, EvPadded>>, None)
H2Bad == Hyp("h2", TxtOk, <<EvBad>>, None)
NoId == Hyp("", TxtOk, <<EvGood>>, None)
H2Naive == Hyp("h2", TxtOk, <<EvNaive>>, None)
\* items carrying a ttl_days of zero, below zero and above one
H2Zero == Hyp("h2", TxtOk, <<EvGood>>, Some(0))
L1Negative == Hyp("l1", TxtOk, <<EvGood>>, Some(-2))
\* five sources and the user's confirmation: the score reaches its cap
M1Long == [Hyp("m1", TxtOk, <<EvGood, EvGood, EvGood, EvGood, EvGood>>, Some(3))
              EXCEPT !.user_confirmed = Some(TRUE)]
F1 == [BlankItem EXCEPT !.id = "h1", !.fact = Some(TxtOk), !.value = Some("v"),
                        !.domain = Some("d"), !.evidence = <<EvGood>>]
\* the fact h1 listed again with a first_seen of the proposal's own
F1Dated == [F1 EXCEPT !.first_seen = Some(StartTime - Day)]
\* a fact whose proposal states its confidence
F2Rated == [BlankItem EXCEPT !.id = "f2", !.fact = Some(TxtOk), !.value = Some("v"),
                             !.confidence = Some(7000), !.evidence = <<EvGood>>]

Proposal(scope, facts, hyps, loops, moves) ==
    Some([ scope |-> scope,
           items |-> [confirmed_facts |-> facts, hypotheses |-> hyps,
                      open_loops |-> loops, candidate_moves |-> moves] ])

MergeArgs(proposal, scope, verify, snap, diff) ==
    [ proposal |-> proposal, scope |-> scope, verify_sources |-> verify,
      snapshot_out |-> snap, diff_out |-> diff ]

MergeInputs ==
    { MergeArgs(None, TargetScope, TRUE, TRUE, TRUE),
      MergeArgs(Proposal(TargetScope, <<>>, <<>>, <<>>, <<>>), TargetScope, TRUE, TRUE, TRUE),
      MergeArgs(Proposal(TargetScope, <<>>, <<H1>>, <<>>, <<>>), TargetScope, TRUE, TRUE, TRUE),
      MergeArgs(Proposal(TargetScope, <<>>, <<H1Secret>>, <<>>, <<>>), TargetScope, TRUE, FALSE, FALSE),
      MergeArgs(Proposal(TargetScope, <<>>, <<H1Retracted>>, <<>>, <<>>), TargetScope, TRUE, FALSE, FALSE),
      MergeArgs(Proposal(TargetScope, <<>>, <<H1SecretBad>>, <<>>, <<>>), TargetScope, TRUE, FALSE, FALSE),
      MergeArgs(Proposal(TargetScope, <<>>, <<H1Bogus>>, <<>>, <<>>), TargetScope, TRUE, TRUE, TRUE),
      MergeArgs(Proposal(TargetScope, <<>>, <<NoId>>, <<>>, <<>>), TargetScope, TRUE, TRUE, TRUE),
      MergeArgs(Proposal(OtherScope, <<>>, <<H1>>, <<>>, <<>>), TargetScope, TRUE, TRUE, TRUE),
      MergeArgs(Proposal(TargetScope, <<>>, <<H2Bad>>, <<>>, <<>>), TargetScope, TRUE, TRUE, TRUE),
      MergeArgs(Proposal(TargetScope, <<>>, <<H2Bad>>, <<>>, <<>>), TargetScope, FALSE, FALSE, FALSE),
      MergeArgs(Proposal(TargetScope, <<F1>>, <<H1>>, <<>>, <<H2>>), TargetScope, TRUE, FALSE, FALSE),
      MergeArgs(Proposal(TargetScope, <<F2Rated>>, <<H2Zero>>, <<L1Negative>>, <<M1Long>>), TargetScope, TRUE, FALSE, FALSE),
      MergeArgs(Proposal(TargetScope, <<>>, <<H2Naive>>, <<>>, <<>>), TargetScope, TRUE, TRUE, TRUE),
      MergeArgs(Proposal(TargetScope, <<F1Dated>>, <<>>, <<>>, <<>>), TargetScope, TRUE, FALSE, FALSE) }

ConsentArgs(op, id, pattern, match, fact, value) ==
    [ op |-> op, id |-> id, pattern |-> pattern, domain |-> None, note |-> None,
      match |-> match, fact |-> fact, value |-> value ]

ConsentInputs ==
    { ConsentArgs("dont-store", "", PatSec, <<>>, <<>>, None),
      ConsentArgs("dont-store", "", <<>>, <<>>, <<>>, None),
      [ConsentArgs("dont-store", "", NeedleNone, <<>>, <<>>, None)
          EXCEPT !.domain = Some("d"), !.note = Some("n")],
      ConsentArgs("deny", "h1", <<>>, <<>>, <<>>, None),
      ConsentArgs("deny", "zz", <<>>, <<>>, <<>>, None),
      ConsentArgs("deny", "", <<>>, <<>>, <<>>, None),
      ConsentArgs("forget", "h1", <<>>, <<>>, <<>>, None),
      ConsentArgs("forget", "", <<>>, NeedleOk, <<>>, None),
      ConsentArgs("forget", "", <<>>, NeedleNone, <<>>, None),
      ConsentArgs("forget", "", <<>>, <<>>, <<>>, None),
      ConsentArgs("confirm", "h1", <<>>, <<>>, TxtFact, Some("concise")),
      ConsentArgs("confirm", "h1", <<>>, <<>>, <<>>, None),
      ConsentArgs("confirm", "h2", <<>>, <<>>, <<>>, Some("concise")),
      ConsentArgs("confirm", "zz", <<>>, <<>>, TxtFact, None),
      ConsentArgs("confirm", "", <<>>, <<>>, TxtFact, None) }

(***************************************************************************)
(* The state machine.  modelFile, snapshotFile and diffFile are the three  *)
(* files an invocation may write (None = the file does not exist); now is  *)
(* the wall clock; last records the latest invocation with the files as    *)
(* they were before it; retired collects the ids that were retracted or    *)
(* went stale; call holds the argument and result of a library call.       *)
(***************************************************************************)
NoArgs ==
    [ op |-> "", id |-> "", pattern |-> <<>>, domain |-> None, note |-> None,
      match |-> <<>>, fact |-> <<>>, value |-> None,
      proposal |-> None, scope |-> "", verify_sources |-> FALSE,
      snapshot_out |-> FALSE, diff_out |-> FALSE ]

NoOp ==
    [ op |-> "none", ok |-> FALSE, at |-> 0, args |-> NoArgs,
      pre |-> None, preSnapshot |-> None, preDiff |-> None ]

NoCall == [fn |-> "none", evidence |-> <<>>, done |-> FALSE, accepted |-> FALSE]

Init ==
    /\ modelFile = None
    /\ snapshotFile = None
    /\ diffFile = None
    /\ now = StartTime
    /\ nops = 0
    /\ last = NoOp
    /\ retired = {}
    /\ call = NoCall

Invocation(op, ok, args) ==
    [ op |-> op, ok |-> ok, at |-> now, args |-> args,
      pre |-> modelFile, preSnapshot |-> snapshotFile, preDiff |-> diffFile ]

\* A failed invocation changes no file, so what can follow it is what can
\* follow the state before it: the exploration goes on from successes only.
Continuing == last.op = "none" \/ last.ok

\* (mutant) the files are written before the final validation
MergeWritesBeforeValidation(r) == r.ok \/ r.why = "model schema"

\* build_model.main reaches its atomic_write_json calls only when nothing
\* raised before them
MergeWrites(r) == r.ok

\* (mutant) the document is written as soon as updatedAt is refreshed
ConsentWritesBeforeChecks(r) == r.ok \/ r.why # "model not found or empty"

\* consent_mutations.main reaches atomic_write_json only after validation
ConsentWrites(r) == r.ok

\* what a run of build_model.py with arguments a and outcome r leaves
MergeRun(a, r) ==
    /\ modelFile' = IF MergeWrites(r) THEN Some(r.model) ELSE modelFile
    /\ snapshotFile' = IF MergeWrites(r) /\ a.snapshot_out THEN Some(r.model)
                       ELSE snapshotFile
    /\ diffFile' = IF MergeWrites(r) /\ a.diff_out /\ Has(modelFile)
                   THEN Some(DiffLines(Get(modelFile), r.model))
                   ELSE diffFile
    /\ retired' = IF r.ok THEN retired \cup Ids(r.model.stale_items)
                  ELSE retired
    /\ last' = Invocation("merge", r.ok,
                  [NoArgs EXCEPT !.op = "merge",
                                 !.proposal = a.proposal,
                                 !.scope = a.scope,
                                 !.verify_sources = a.verify_sources,
                                 !.snapshot_out = a.snapshot_out,
                                 !.diff_out = a.diff_out])
    /\ nops' = IF r.ok THEN nops + 1 ELSE nops

\* one run of build_model.py
Merge ==
    /\ Continuing
    /\ nops < MaxOps
    /\ \E a \in MergeInputs :
          MergeRun(a, build_model(modelFile, a.proposal, a.scope,
                                  a.verify_sources, now))
    /\ UNCHANGED <<now, call>>

\* what a run of consent_mutations.py with arguments a and outcome r leaves
ConsentRun(a, r) ==
    /\ modelFile' = IF ConsentWrites(r) THEN Some(r.out) ELSE modelFile
    /\ retired' = IF r.ok THEN retired \cup r.retracted ELSE retired
    /\ last' = Invocation(a.op, r.ok,
                  [NoArgs EXCEPT !.op = a.op, !.id = a.id,
                                 !.pattern = a.pattern,
                                 !.domain = a.domain,
                                 !.note = a.note,
                                 !.match = a.match,
                                 !.fact = a.fact,
                                 !.value = a.value])
    /\ nops' = IF r.ok THEN nops + 1 ELSE nops

\* one run of consent_mutations.py
Consent ==
    /\ Continuing
    /\ nops < MaxOps
    /\ \E a \in ConsentInputs : ConsentRun(a, consent_mutations(modelFile, a, now))
    /\ UNCHANGED <<snapshotFile, diffFile, now, call>>

\* time passes between invocations
Tick ==
    /\ Continuing
    /\ now + TickStep <= StartTime + (MaxTicks * TickStep)
    /\ now' = now + TickStep
    /\ UNCHANGED <<modelFile, snapshotFile, diffFile, nops, last, retired, call>>

Next == Merge \/ Consent \/ Tick

Spec == Init /\ [][Next]_vars

(***************************************************************************)
(* Repeated merges.  The exploration starts from the files left by one     *)
(* successful build_model run on an empty workspace state, optionally      *)
(* followed by one successful consent operation, all at StartTime; its     *)
(* steps are further build_model runs.                                     *)
(***************************************************************************)
MaxRepeatOps == 4

\* the command lines whose first run, with no model file yet, succeeds
PriorMerges ==
    {a \in MergeInputs :
        build_model(None, a.proposal, a.scope, a.verify_sources, StartTime).ok}

\* the files after build_model run a (leaving m1) and then consent run c
\* with outcome r2; a failed consent run leaves what the merge left
AfterPrior(a, m1, c, r2) ==
    /\ modelFile = IF r2.ok THEN Some(r2.out) ELSE Some(m1)
    /\ snapshotFile = IF a.snapshot_out THEN Some(m1) ELSE None
    /\ diffFile = None
    /\ nops = IF r2.ok THEN 2 ELSE 1
    /\ retired = Ids(m1.stale_items) \cup (IF r2.ok THEN r2.retracted ELSE {})
    /\ last = IF r2.ok
              THEN [ op |-> c.op, ok |-> TRUE, at |-> StartTime,
                     args |-> [NoArgs EXCEPT !.op = c.op, !.id = c.id,
                                             !.pattern = c.pattern,
                                             !.match = c.match,
                                             !.fact = c.fact,
                                             !.value = c.value],
                     pre |-> Some(m1),
                     preSnapshot |-> IF a.snapshot_out THEN Some(m1) ELSE None,
                     preDiff |-> None ]
              ELSE [ op |-> "merge", ok |-> TRUE, at |-> StartTime,
                     args |-> [NoArgs EXCEPT !.op = "merge",
                                             !.proposal = a.proposal,
                                             !.scope = a.scope,
                                             !.verify_sources = a.verify_sources,
                                             !.snapshot_out = a.snapshot_out,
                                             !.diff_out = a.diff_out],
                     pre |-> None, preSnapshot |-> None, preDiff |-> None ]

InitRepeat ==
    /\ now = StartTime
    /\ call = NoCall
    /\ \E a \in PriorMerges : \E c \in ConsentInputs :
          AfterPrior(a,
                     build_model(None, a.proposal, a.scope, a.verify_sources,
                                 StartTime).model,
                     c,
                     consent_mutations(
                         Some(build_model(None, a.proposal, a.scope,
                                          a.verify_sources, StartTime).model),
                         c, StartTime))

\* one more run of build_model.py
MergeAgain ==
    /\ Continuing
    /\ nops < MaxRepeatOps
    /\ \E a \in MergeInputs :
          MergeRun(a, build_model(modelFile, a.proposal, a.scope,
                                  a.verify_sources, now))
    /\ UNCHANGED <<now, call>>

NextRepeat == MergeAgain

SpecRepeat == InitRepeat /\ [][NextRepeat]_vars

(***************************************************************************)
(* The Evidence Verifier on its own: the evidence list is drawn at the     *)
(* start, VerifyCall applies verify_evidence_sources to it.                *)
(***************************************************************************)
QuoteAlphabet == {"a", "b", " ", "\n"}
Quotes == UNION {[1..k -> QuoteAlphabet] : k \in 0..MaxQuoteLen}

EvidencePaths ==
    { PathM, <<"x">>, <<".", ".", "/", "o">>, <<>>,
      <<".", ".", "/", "w", "2", "/", "m">>, <<"/", "o">> }

LinesSpecs ==
    { L1L1, L1L2, <<"L", "2", "-", "L", "2">>, <<"L", "2", "-", "L", "3">>,
      <<"L", "0", "-", "L", "1">>, <<"L", "2", "-", "L", "1">>,
      <<"1", "-", "2">>, <<>> }

EvidenceEntries ==
    { [path |-> p, lines |-> l, quote |-> q, ts |-> TsNone] :
        p \in EvidencePaths, l \in LinesSpecs, q \in Quotes }

EvidenceLists ==
    {<<e>> : e \in EvidenceEntries}
      \cup {<<EvGood, e>> : e \in EvidenceEntries}
      \cup {<<e, EvGood>> : e \in EvidenceEntries}

InitVerify ==
    /\ modelFile = None
    /\ snapshotFile = None
    /\ diffFile = None
    /\ now = StartTime
    /\ nops = 0
    /\ last = NoOp
    /\ retired = {}
    /\ call \in {[fn |-> "verify_evidence_sources", evidence |-> evl,
                  done |-> FALSE, accepted |-> FALSE] : evl \in EvidenceLists}

VerifyCall ==
    /\ call.fn = "verify_evidence_sources"
    /\ ~call.done
    /\ call' = [call EXCEPT !.done = TRUE,
                            !.accepted = verify_evidence_sources(call.evidence,
                                                                 WorkspaceRoot)]
    /\ UNCHANGED <<modelFile, snapshotFile, diffFile, now, nops, last, retired>>

NextVerify == VerifyCall

SpecVerify == InitVerify /\ [][NextVerify]_vars

(***************************************************************************)
(* The Confidence Scorer on its own: the evidence list, the two flags and  *)
(* the evaluation time are drawn at the start, ScoreCall applies           *)
(* confidence_formula to them.  The result is [raised, value].             *)
(***************************************************************************)
MaxSources == 6

ScoreStamps ==
    {TsNone, TsBad, TsIso(0), TsIso(100 * Day), TsNaive(0)}

ScoreEntries ==
    {[path |-> PathM, lines |-> L1L1, quote |-> <<"a">>, ts |-> ts] :
        ts \in ScoreStamps}

\* every list of up to two entries, and the longer lists of one repeated entry
ScoreLists ==
    UNION {[1..k -> ScoreEntries] : k \in 0..2}
      \cup {[i \in 1..k |-> e] : k \in 3..MaxSources, e \in ScoreEntries}

ScoreTimes == {StartTime, StartTime + (3 * Day), StartTime + (70 * Day)}

InitScore ==
    /\ modelFile = None
    /\ snapshotFile = None
    /\ diffFile = None
    /\ now \in ScoreTimes
    /\ nops = 0
    /\ last = NoOp
    /\ retired = {}
    /\ call \in {[fn |-> "confidence_formula", evidence |-> evl,
                  user_confirmed |-> uc, conflicts |-> cf,
                  done |-> FALSE, raised |-> FALSE, value |-> 0] :
                    evl \in ScoreLists, uc \in BOOLEAN, cf \in BOOLEAN}

ScoreCall ==
    /\ call.fn = "confidence_formula"
    /\ ~call.done
    /\ call' = [call EXCEPT
                  !.done = TRUE,
                  !.raised = RecencyRaises(call.evidence),
                  !.value = IF RecencyRaises(call.evidence) THEN 0
                            ELSE confidence_formula(call.evidence,
                                                    call.user_confirmed,
                                                    call.conflicts, now)]
    /\ UNCHANGED <<modelFile, snapshotFile, diffFile, now, nops, last, retired>>

NextScore == ScoreCall

SpecScore == InitScore /\ [][NextScore]_vars

(***************************************************************************)
(* atomic_write_json on its own.  call holds the writer: dest is the       *)
(* content of the destination path and tmp that of the temporary file      *)
(* (None = no such file), text what json.dump produces for the data,       *)
(* fails_at the number of characters after which json.dump raises (None =  *)
(* it does not), prev the destination before the write began.  A file is   *)
(* a sequence of characters; the buffered writes reach the temporary file  *)
(* one character at a time, so every prefix is observable.  A crash stops  *)
(* the process where it is: the finally clause does not run.               *)
(***************************************************************************)
MaxWrites == 2

JsonTexts == {<<"{", "}">>, <<"{", "a", "}">>}

\* json.dump(data, f); f.write("\n")
FileText(text) == text \o <<"\n">>

WriteInputs ==
    {[text |-> tx, fails_at |-> fa] :
        tx \in JsonTexts, fa \in {None, Some(0), Some(2)}}

Writer(dest, inp, n) ==
    [fn |-> "atomic_write_json", dest |-> dest, tmp |-> None,
     text |-> inp.text, fails_at |-> inp.fails_at, prev |-> dest,
     pc |-> "mkstemp", raised |-> FALSE, crashed |-> FALSE, writes |-> n]

InitWrite ==
    /\ modelFile = None
    /\ snapshotFile = None
    /\ diffFile = None
    /\ now = StartTime
    /\ nops = 0
    /\ last = NoOp
    /\ retired = {}
    /\ call \in {Writer(d, inp, 1) :
                    d \in {None} \cup {Some(FileText(tx)) : tx \in JsonTexts},
                    inp \in WriteInputs}

Running == call.fn = "atomic_write_json" /\ ~call.crashed

\* (mutant) the characters go straight to the destination path
WrittenInPlace(c, ch) ==
    [c EXCEPT !.tmp = Some(Get(@) \o <<ch>>),
              !.dest = Some(Get(c.tmp) \o <<ch>>)]

\* f.write reaching the temporary file
Written(c, ch) == [c EXCEPT !.tmp = Some(Get(@) \o <<ch>>)]

\* os.replace(tmp, path)
Replaced(c) == [c EXCEPT !.dest = c.tmp, !.tmp = None]

\* tempfile.mkstemp(dir = path.parent)
WriteMkstemp ==
    /\ Running /\ call.pc = "mkstemp"
    /\ call' = [call EXCEPT !.tmp = Some(<<>>), !.pc = "dump"]
    /\ UNCHANGED <<modelFile, snapshotFile, diffFile, now, nops, last, retired>>

\* one more character of json.dump's output and the final newline
WriteChunk ==
    /\ Running /\ call.pc = "dump"
    /\ call.fails_at # Some(Len(Get(call.tmp)))
    /\ Len(Get(call.tmp)) < Len(FileText(call.text))
    /\ call' = Written(call, FileText(call.text)[Len(Get(call.tmp)) + 1])
    /\ UNCHANGED <<modelFile, snapshotFile, diffFile, now, nops, last, retired>>

\* json.dump raises: control goes to the finally clause
WriteRaise ==
    /\ Running /\ call.pc = "dump"
    /\ call.fails_at = Some(Len(Get(call.tmp)))
    /\ call' = [call EXCEPT !.raised = TRUE, !.pc = "finally"]
    /\ UNCHANGED <<modelFile, snapshotFile, diffFile, now, nops, last, retired>>

\* the file is closed and renamed over the destination
WriteReplace ==
    /\ Running /\ call.pc = "dump"
    /\ Get(call.tmp) = FileText(call.text)
    /\ call' = [Replaced(call) EXCEPT !.pc = "finally"]
    /\ UNCHANGED <<modelFile, snapshotFile, diffFile, now, nops, last, retired>>

\* finally: if os.path.exists(tmp): os.unlink(tmp)
WriteFinally ==
    /\ Running /\ call.pc = "finally"
    /\ call' = [call EXCEPT !.tmp = None, !.pc = "done"]
    /\ UNCHANGED <<modelFile, snapshotFile, diffFile, now, nops, last, retired>>

\* the process dies between two steps
WriteCrash ==
    /\ Running /\ call.pc # "done"
    /\ call' = [call EXCEPT !.crashed = TRUE]
    /\ UNCHANGED <<modelFile, snapshotFile, diffFile, now, nops, last, retired>>

\* a later process writes the same path again
WriteAgain ==
    /\ call.fn = "atomic_write_json"
    /\ call.crashed \/ call.pc = "done"
    /\ call.writes < MaxWrites
    /\ \E inp \in WriteInputs : call' = Writer(call.dest, inp, call.writes + 1)
    /\ UNCHANGED <<modelFile, snapshotFile, diffFile, now, nops, last, retired>>

NextWrite ==
    \/ WriteMkstemp
    \/ WriteChunk
    \/ WriteRaise
    \/ WriteReplace
    \/ WriteFinally
    \/ WriteCrash
    \/ WriteAgain

SpecWrite == InitWrite /\ [][NextWrite]_vars

(***************************************************************************)
(* nightly_run.main.  call holds one run: phase and disabled are read once *)
(* from the arguments, the environment and the marker file; proposals,     *)
(* real and tmp are, per scope, the proposal.json of the run directory,    *)
(* the model.json under memory/internal/connect-dots and the model.tmp.json*)
(* of the run directory (None = no such file); post is model.post.json,    *)
(* errors the error.log, wrote the scopes whose model.json the run wrote.  *)
(* The scopes given on the command line leave out openclaw-runtime/ops,    *)
(* whose proposal the run rewrites before validating it.                   *)
(***************************************************************************)
ReposScope == "repos"

NightlyScopes == <<TargetScope, ReposScope>>

\* --phase is 1 or 2; CONNECT_DOTS_PHASE may hold any integer
Phases == {1, 2, 3}

NightlyProposals(scope) ==
    { None,
      Proposal(scope, <<>>, <<H1>>, <<>>, <<>>),
      Proposal(scope, <<>>, <<NoId>>, <<>>, <<>>),
      Proposal(scope, <<>>, <<H2Bad>>, <<>>, <<>>),
      Proposal(OtherScope, <<>>, <<H1>>, <<>>, <<>>) }

\* no model.json yet, or the one an earlier merge of H2 left
NightlyModels(scope) ==
    { None,
      Some(build_model(None, Proposal(scope, <<>>, <<H2>>, <<>>, <<>>), scope,
                       TRUE, StartTime).model) }

\* the scope whose dry-run build outlasts the timeout of sh, "" for none
NightlyHangs == {"", TargetScope, ReposScope}

InitNightly ==
    /\ modelFile = None
    /\ snapshotFile = None
    /\ diffFile = None
    /\ now = StartTime + TickStep
    /\ nops = 0
    /\ last = NoOp
    /\ retired = {}
    /\ \E ph \in Phases, dis \in BOOLEAN, dok \in BOOLEAN, hg \in NightlyHangs :
       \E pt \in NightlyProposals(TargetScope), pr \in NightlyProposals(ReposScope) :
       \E mt \in NightlyModels(TargetScope), mr \in NightlyModels(ReposScope) :
          call = [fn |-> "nightly_run", phase |-> ph, disabled |-> dis,
                  idx |-> 1, diff_ok |-> dok, hang |-> hg, crashed |-> FALSE,
                  proposals |-> (TargetScope :> pt) @@ (ReposScope :> pr),
                  real |-> (TargetScope :> mt) @@ (ReposScope :> mr),
                  start |-> (TargetScope :> mt) @@ (ReposScope :> mr),
                  tmp |-> (TargetScope :> None) @@ (ReposScope :> None),
                  post |-> (TargetScope :> None) @@ (ReposScope :> None),
                  errors |-> (TargetScope :> "") @@ (ReposScope :> ""),
                  wrote |-> {}, ok_any |-> TRUE, done |-> FALSE, code |-> 0]

\* write_text(err_path, ...); ok_any = False; continue
ScopeFails(c, scope, why) ==
    [c EXCEPT !.errors[scope] = why, !.ok_any = FALSE]

\* (mutant) the marker file is not looked at
apply_allowed_whatever_marker(c) == c.phase = 2

apply_allowed(c) == c.phase = 2 /\ ~c.disabled

\* the second build_model run, against the real path, with outcome app
ApplyScope(c, scope, app) ==
    IF ~app.ok THEN ScopeFails(c, scope, "build_model failed (apply)")
    ELSE [c EXCEPT !.real[scope] = Some(app.model),
                   !.post[scope] = Some(app.model),
                   !.wrote = @ \cup {scope}]

\* after a dry-run build that left model.tmp.json: the diff, then the gate
AfterDryRun(c, scope, app) ==
    IF Has(c.real[scope]) /\ ~c.diff_ok
    THEN ScopeFails(c, scope, "model_diff failed")
    ELSE IF c.phase = 1 \/ ~apply_allowed(c) THEN c
    ELSE ApplyScope(c, scope, app)

\* the loop body for one scope; dry and app are the outcomes of build_model
\* against model.tmp.json and against model.json
NightlyBody(c, scope, dry, app) ==
    IF ~Has(c.proposals[scope])
    THEN ScopeFails(c, scope, "proposal.json missing")
    ELSE IF ~ProposalSchemaOk(Get(c.proposals[scope]))
    THEN ScopeFails(c, scope, "proposal schema invalid")
    ELSE IF ~dry.ok
    THEN ScopeFails(c, scope, "build_model failed (dry-run)")
    ELSE AfterDryRun([c EXCEPT !.tmp[scope] = Some(dry.model)], scope, app)

NightlyBuild(c, scope, prev) ==
    build_model(prev[scope], c.proposals[scope], scope, TRUE, now)

\* sh: subprocess.run raises TimeoutExpired when the dry-run build of the
\* scope, reached past the proposal checks, outlasts the timeout
BuildTimesOut(c, scope) ==
    /\ c.hang = scope
    /\ Has(c.proposals[scope])
    /\ ProposalSchemaOk(Get(c.proposals[scope]))

\* main has no handler for the exception: the run ends there with a
\* traceback and exit code 1, the error.log of the scope as first written
NightlyCrashed(c) == [c EXCEPT !.done = TRUE, !.crashed = TRUE, !.code = 1]

\* one iteration of the loop over the scopes
NightlyScope ==
    /\ call.fn = "nightly_run"
    /\ ~call.done
    /\ call.idx <= Len(NightlyScopes)
    /\ call' = IF BuildTimesOut(call, NightlyScopes[call.idx])
               THEN NightlyCrashed(call)
               ELSE [NightlyBody(call, NightlyScopes[call.idx],
                                 NightlyBuild(call, NightlyScopes[call.idx], call.tmp),
                                 NightlyBuild(call, NightlyScopes[call.idx], call.real))
                       EXCEPT !.idx = @ + 1]
    /\ UNCHANGED <<modelFile, snapshotFile, diffFile, now, nops, last, retired>>

\* return 0 if ok_any else 1
NightlyExit ==
    /\ call.fn = "nightly_run"
    /\ call.idx > Len(NightlyScopes)
    /\ ~call.done
    /\ call' = [call EXCEPT !.done = TRUE, !.code = IF call.ok_any THEN 0 ELSE 1]
    /\ UNCHANGED <<modelFile, snapshotFile, diffFile, now, nops, last, retired>>

NextNightly == NightlyScope \/ NightlyExit

SpecNightly == InitNightly /\ [][NextNightly]_vars

(***************************************************************************)
(* model_diff.py.  call holds one run: the two snapshots, --cap (None =    *)
(* not given) and, once done, the three uncapped categories and the lines  *)
(* printed.  A line is [tag, text, id] as for the --diff-out text.         *)
(***************************************************************************)
MaxBulk == 11

CapDefault == 10

\* the index as the values of the dict, in insertion order: one item per
\* id, the last one carrying it, over the five sections in the code's order
_index(model) ==
    [k \in 1..Len(IndexKeys(model.confirmed_facts \o model.hypotheses
                              \o model.stale_items \o model.open_loops
                              \o model.candidate_moves, <<>>)) |->
        LastWithId(model.confirmed_facts \o model.hypotheses
                     \o model.stale_items \o model.open_loops
                     \o model.candidate_moves,
                   IndexKeys(model.confirmed_facts \o model.hypotheses
                               \o model.stale_items \o model.open_loops
                               \o model.candidate_moves, <<>>)[k])]

\* it.get("status") == "retracted" and pit.get("status") != "retracted"
NewlyRetracted(it, pit) ==
    it.status = Some("retracted") /\ pit.status # Some("retracted")

\* the comparison over the statement or fact text, value, confidence, status
\* and expires_at
ChangedWithFact(it, pit) ==
    \/ it.statement # pit.statement
    \/ it.fact # pit.fact
    \/ it.value # pit.value
    \/ it.confidence # pit.confidence
    \/ it.status # pit.status
    \/ it.expires_at # pit.expires_at

\* the loop over ("statement", "value", "confidence", "status", "expires_at")
Changed(it, pit) ==
    \/ it.statement # pit.statement
    \/ it.value # pit.value
    \/ it.confidence # pit.confidence
    \/ it.status # pit.status
    \/ it.expires_at # pit.expires_at

LinesOf(tag, items) == [i \in 1..Len(items) |-> DiffLine(tag, items[i])]

\* the three lists after the two loops; p and c are the two indexes
Classify(p, c) ==
    [ added |-> LinesOf("+", SelectSeq(c, LAMBDA it : ~HasId(p, it.id))),
      updated |->
          LinesOf("~", SelectSeq(c, LAMBDA it :
              /\ HasId(p, it.id)
              /\ ~NewlyRetracted(it, LastWithId(p, it.id))
              /\ Changed(it, LastWithId(p, it.id)))),
      retracted |->
          LinesOf("-", SelectSeq(c, LAMBDA it :
              /\ HasId(p, it.id)
              /\ NewlyRetracted(it, LastWithId(p, it.id))))
          \o LinesOf("-", SelectSeq(p, LAMBDA it : ~HasId(c, it.id))) ]

\* (mutant) the updated lines are printed whole
PrintedUpdatedUncapped(r, n) ==
    Take(r.added, Max(0, n)) \o r.updated \o Take(r.retracted, Max(0, n))
      \o (IF r.added = <<>> /\ r.updated = <<>> /\ r.retracted = <<>>
          THEN <<[tag |-> "(no material changes)", text |-> <<>>, id |-> ""]>>
          ELSE <<>>)

\* the lines printed for the lists r under cap n
Printed(r, n) ==
    Take(r.added, Max(0, n)) \o Take(r.updated, Max(0, n))
      \o Take(r.retracted, Max(0, n))
      \o (IF r.added = <<>> /\ r.updated = <<>> /\ r.retracted = <<>>
          THEN <<[tag |-> "(no material changes)", text |-> <<>>, id |-> ""]>>
          ELSE <<>>)

DiffResult(r, n) ==
    [added |-> r.added, updated |-> r.updated, retracted |-> r.retracted,
     printed |-> Printed(r, n)]

model_diff(prev, cur, cap) ==
    DiffResult(Classify(_index(prev), _index(cur)), OrElse(cap, CapDefault))

\* the snapshots: a hypothesis h1 in four forms or absent, a fact f2 in three
\* forms or absent, and none, one or MaxBulk open loops of one of two
\* confidences
DiffHyp ==
    [Hyp("h1", TxtOk, <<>>, None) EXCEPT !.status = Some("active"),
                                         !.confidence = Some(5000),
                                         !.expires_at = Some(Day)]

DiffHyps ==
    { <<>>, <<DiffHyp>>,
      <<[DiffHyp EXCEPT !.statement = Some(TxtFact)]>>,
      <<[DiffHyp EXCEPT !.status = Some("retracted")]>>,
      <<[DiffHyp EXCEPT !.expires_at = Some(2 * Day)]>> }

DiffFact ==
    [BlankItem EXCEPT !.id = "f2", !.fact = Some(TxtOk), !.value = Some("v"),
                      !.status = Some("active"), !.confidence = Some(ConfMax),
                      !.expires_at = Some(FarFuture)]

DiffFacts ==
    { <<>>, <<DiffFact>>,
      <<[DiffFact EXCEPT !.fact = Some(TxtFact)]>>,
      <<[DiffFact EXCEPT !.value = Some("w")]>> }

BulkIds ==
    <<"b01", "b02", "b03", "b04", "b05", "b06", "b07", "b08", "b09", "b10",
      "b11", "b12">>

Bulk(k, conf) ==
    [i \in 1..k |->
        [Hyp(BulkIds[i], TxtOk, <<>>, None) EXCEPT !.status = Some("active"),
                                                    !.confidence = Some(conf),
                                                    !.expires_at = Some(Day)]]

DiffBulks ==
    {Bulk(k, conf) : k \in {0, 1, MaxBulk}, conf \in {3500, 5000}}

Snapshots ==
    {[ensure_model_skeleton(TargetScope, StartTime) EXCEPT
         !.hypotheses = h, !.confirmed_facts = f, !.open_loops = b] :
       h \in DiffHyps, f \in DiffFacts, b \in DiffBulks}

DiffCaps == {None, Some(-1), Some(0), Some(2)}

InitDiff ==
    /\ modelFile = None
    /\ snapshotFile = None
    /\ diffFile = None
    /\ now = StartTime
    /\ nops = 0
    /\ last = NoOp
    /\ retired = {}
    /\ call \in {[fn |-> "model_diff", prev |-> p, cur |-> c, cap |-> n,
                  done |-> FALSE,
                  out |-> [added |-> <<>>, updated |-> <<>>,
                           retracted |-> <<>>, printed |-> <<>>]] :
                    p \in Snapshots, c \in Snapshots, n \in DiffCaps}

DiffCall ==
    /\ call.fn = "model_diff"
    /\ ~call.done
    /\ call' = [call EXCEPT !.done = TRUE,
                            !.out = model_diff(call.prev, call.cur, call.cap)]
    /\ UNCHANGED <<modelFile, snapshotFile, diffFile, now, nops, last, retired>>

NextDiff == DiffCall

SpecDiff == InitDiff /\ [][NextDiff]_vars

(***************************************************************************)
(* find_quote_lines.py on its own, followed by the verifier: the path,     *)
(* quote and window are drawn at the start, FindCall runs the script, and  *)
(* VerifyFound hands an evidence entry built from the printed range to     *)
(* verify_evidence_sources.  A result is [code, out].                      *)
(***************************************************************************)
WindowDefault == 1

\* str(n) for n >= 0
RECURSIVE DecStr(_)
DecStr(n) ==
    IF n < 10 THEN <<Digits[n + 1]>>
    ELSE DecStr(n \div 10) \o <<Digits[(n % 10) + 1]>>

\* f"L{start}-L{end}\n" with end = min(len(lines), start + max(1, window) - 1)
RangeLine(start, n, window) ==
    <<"L">> \o DecStr(start) \o <<"-", "L">>
      \o DecStr(Min(n, start + Max(1, window) - 1)) \o <<"\n">>

\* the first line holding q, 0 when there is none
FirstLineWith(lines, q) ==
    LET hits == {i \in 1..Len(lines) : IsSubstr(q, lines[i])}
    IN  IF hits = {} THEN 0 ELSE CHOOSE i \in hits : \A j \in hits : i <= j

\* full.find(q), -1 when q is not in full
StrFind(full, q) ==
    LET hits == {i \in 0..(Len(full) - Len(q)) :
                    SubSeq(full, i + 1, i + Len(q)) = q}
    IN  IF hits = {} THEN -1 ELSE CHOOSE i \in hits : \A j \in hits : i <= j

\* upto.count("\n")
CountNewlines(upto) == Cardinality({j \in 1..Len(upto) : upto[j] = "\n"})

\* the search over the lines read from the file
FindInLines(lines, q, window) ==
    LET i == FirstLineWith(lines, q)
        full == Concat(lines)
        idx == StrFind(full, q)
    IN  IF i > 0 THEN [code |-> 0, out |-> RangeLine(i, Len(lines), window)]
        ELSE IF idx >= 0
        THEN [code |-> 0,
              out |-> RangeLine(CountNewlines(SubSeq(full, 1, idx)) + 1,
                                Len(lines), window)]
        ELSE [code |-> 1, out |-> <<>>]

\* main: ws and p are the resolved workspace and file; opening a directory
\* raises, which ends the run with code 1
find_quote_lines(workspace, path, quote, window) ==
    LET ws == ResolveUnder(<<"/">>, workspace)
        p == ResolveUnder(workspace, path)
    IN  IF ~StartsWith(p, ws) THEN [code |-> 2, out |-> <<>>]
        ELSE IF ~PathExists(p) THEN [code |-> 2, out |-> <<>>]
        ELSE IF Strip(quote) = <<>> THEN [code |-> 2, out |-> <<>>]
        ELSE IF ~IsFile(p) THEN [code |-> 1, out |-> <<>>]
        ELSE FindInLines(ReadLines(FileContent(p)), Strip(quote),
                         OrElse(window, WindowDefault))

FindQuotes == UNION {[1..k -> QuoteAlphabet] : k \in 0..(MaxQuoteLen + 1)}
FindWindows == {None, Some(-1), Some(0), Some(1), Some(2), Some(3)}

\* the evidence entry built from a successful run
FoundEvidence(c) ==
    [path |-> c.path, lines |-> DropFinalNewline(c.out), quote |-> c.quote,
     ts |-> TsNone]

InitFind ==
    /\ modelFile = None
    /\ snapshotFile = None
    /\ diffFile = None
    /\ now = StartTime
    /\ nops = 0
    /\ last = NoOp
    /\ retired = {}
    /\ call \in {[fn |-> "find_quote_lines", path |-> p, quote |-> q,
                  window |-> w, pc |-> "start", code |-> 0, out |-> <<>>,
                  accepted |-> FALSE] :
                    p \in EvidencePaths, q \in FindQuotes, w \in FindWindows}

FindCall ==
    /\ call.fn = "find_quote_lines"
    /\ call.pc = "start"
    /\ LET r == find_quote_lines(WorkspaceRoot, call.path, call.quote,
                                 call.window)
       IN  call' = [call EXCEPT !.pc = "found", !.code = r.code,
                                !.out = r.out]
    /\ UNCHANGED <<modelFile, snapshotFile, diffFile, now, nops, last, retired>>

VerifyFound ==
    /\ call.fn = "find_quote_lines"
    /\ call.pc = "found"
    /\ call.code = 0
    /\ call' = [call EXCEPT
                  !.pc = "verified",
                  !.accepted = verify_evidence_sources(<<FoundEvidence(call)>>,
                                                       WorkspaceRoot)]
    /\ UNCHANGED <<modelFile, snapshotFile, diffFile, now, nops, last, retired>>

NextFind == FindCall \/ VerifyFound

SpecFind == InitFind /\ [][NextFind]_vars

(***************************************************************************)
(* Two build_model runs against one model path.  call holds the race: file *)
(* is the content of model.json (None = no file), tmps the temporary files *)
(* of its directory by name, proc the two runs and order the runs in the   *)
(* order of their os.replace.  A file is written in two chunks, each       *)
(* [doc, part]; json.load accepts the two parts of one document.           *)
(***************************************************************************)
Racers == {1, 2}

FileOf(doc) == <<[doc |-> doc, part |-> 1], [doc |-> doc, part |-> 2]>>

Whole(content) ==
    /\ Len(content) = 2
    /\ content[1].part = 1
    /\ content[2].part = 2
    /\ content[1].doc = content[2].doc

\* _lib.load_json: [ok, doc]; ok is FALSE when json.load raises
load_json(file) ==
    IF ~Has(file) THEN [ok |-> TRUE, doc |-> None]
    ELSE IF Whole(Get(file)) THEN [ok |-> TRUE, doc |-> Some(Get(file)[1].doc)]
    ELSE [ok |-> FALSE, doc |-> None]

\* (mutant) the temporary file has one fixed name
MkstempFixedName(p) == 0

\* tempfile.mkstemp: a name no other run has
Mkstemp(p) == p

RaceProposals ==
    { Proposal(TargetScope, <<>>, <<H1>>, <<>>, <<>>),
      Proposal(TargetScope, <<>>, <<H1Retracted>>, <<>>, <<>>),
      Proposal(TargetScope, <<F1>>, <<H1>>, <<>>, <<H2>>) }

\* no model.json yet, or the one an earlier merge of H2 left
RaceModels ==
    { None,
      Some(FileOf(build_model(None, Proposal(TargetScope, <<>>, <<H2>>, <<>>, <<>>),
                              TargetScope, TRUE, StartTime).model)) }

Racer(proposal) ==
    [pc |-> "start", proposal |-> proposal, read |-> None,
     out |-> Failed("", BlankItem), tmp |-> 0, written |-> 0]

InitRace ==
    /\ modelFile = None
    /\ snapshotFile = None
    /\ diffFile = None
    /\ now = StartTime + TickStep
    /\ nops = 0
    /\ last = NoOp
    /\ retired = {}
    /\ \E f \in RaceModels, p1 \in RaceProposals, p2 \in RaceProposals :
          call = [fn |-> "race", file |-> f, start |-> f,
                  tmps |-> [n \in {0} \cup Racers |-> None],
                  proc |-> (1 :> Racer(p1)) @@ (2 :> Racer(p2)),
                  order |-> <<>>]

RaceUnchanged == UNCHANGED <<modelFile, snapshotFile, diffFile, now, nops, last, retired>>

\* the run p of the racing call has reached pc
RaceAt(p, pc) == call.fn = "race" /\ call.proc[p].pc = pc

\* main up to the validation of the merged model: the model is read once
RaceLoad(p) ==
    /\ RaceAt(p, "start")
    /\ LET r == load_json(call.file)
           out == build_model(r.doc, call.proc[p].proposal, TargetScope,
                              TRUE, now)
       IN  call' = [call EXCEPT
                      !.proc[p].read = r.doc,
                      !.proc[p].out = out,
                      !.proc[p].pc = IF r.ok /\ out.ok THEN "built" ELSE "failed"]
    /\ RaceUnchanged

\* atomic_write_json: mkstemp creates the temporary file, empty
RaceMkstemp(p) ==
    /\ RaceAt(p, "built")
    /\ call' = [call EXCEPT !.proc[p].tmp = Mkstemp(p),
                            !.tmps[Mkstemp(p)] = Some(<<>>),
                            !.proc[p].pc = "open"]
    /\ RaceUnchanged

\* json.dump and f.write: one more chunk at the run's own offset; the
\* with-block closes the file after the second
RaceWrite(p) ==
    /\ RaceAt(p, "open")
    /\ LET name == call.proc[p].tmp
           k == call.proc[p].written + 1
           chunk == [doc |-> call.proc[p].out.model, part |-> k]
           old == OrElse(call.tmps[name], <<>>)
       IN  call' = [call EXCEPT
                      !.tmps[name] =
                          Some(IF k <= Len(old) THEN [old EXCEPT ![k] = chunk]
                               ELSE Append(old, chunk)),
                      !.proc[p].written = k,
                      !.proc[p].pc = IF k = 2 THEN "closed" ELSE "open"]
    /\ RaceUnchanged

\* os.replace(tmp, path); it raises when the temporary file is gone
RaceReplace(p) ==
    /\ RaceAt(p, "closed")
    /\ LET name == call.proc[p].tmp
       IN  call' = IF Has(call.tmps[name])
                   THEN [call EXCEPT !.file = call.tmps[name],
                                     !.tmps[name] = None,
                                     !.order = Append(@, p),
                                     !.proc[p].pc = "done"]
                   ELSE [call EXCEPT !.proc[p].pc = "failed"]
    /\ RaceUnchanged

NextRace ==
    \E p \in Racers : RaceLoad(p) \/ RaceMkstemp(p) \/ RaceWrite(p) \/ RaceReplace(p)

SpecRace == InitRace /\ [][NextRace]_vars

(***************************************************************************)
(* Properties.                                                             *)
(***************************************************************************)
Pre == Get(last.pre)
Post == Get(modelFile)
ConsentOps == {"dont-store", "deny", "forget", "confirm"}

\* C1: a build_model run that fails (proposal missing, proposal schema,
\* scope mismatch, evidence, final model schema) leaves the model file, the
\* snapshot file and the diff file exactly as they were.
C1_MergeFailsClosed ==
    (last.op = "merge" /\ ~last.ok) =>
        /\ modelFile = last.pre
        /\ snapshotFile = last.preSnapshot
        /\ diffFile = last.preDiff

\* a merge asked to write all three files failed on the final model schema
\* while a model and a snapshot already existed
C1_Witness ==
    /\ last.op = "merge" /\ ~last.ok
    /\ last.args.snapshot_out /\ last.args.diff_out
    /\ Has(last.pre) /\ Has(last.preSnapshot)
    /\ Has(last.args.proposal)
    /\ Get(last.args.proposal).items.hypotheses = <<H1Bogus>>

\* the text of lines a..b (1-based, inclusive) of a file, cut out of the
\* file's characters by counting newlines
LineOfPos(content, k) == 1 + Cardinality({j \in 1..(k - 1) : content[j] = "\n"})

CitedText(content, a, b) ==
    LET inside == {k \in 1..Len(content) :
                      LineOfPos(content, k) >= a /\ LineOfPos(content, k) <= b}
    IN  IF inside = {} THEN <<>>
        ELSE SubSeq(content,
                    CHOOSE k \in inside : \A j \in inside : k <= j,
                    CHOOSE k \in inside : \A j \in inside : k >= j)

QuoteIsCited(ev, quote) ==
    LET full == ResolveUnder(WorkspaceRoot, ev.path)
        r == parse_lines_spec(ev.lines)
    IN  /\ IsFile(full)
        /\ r.ok
        /\ IsSubstr(quote, CitedText(FileContent(full), r.a, r.b))

C5_SurvivorsVerified ==
    (last.op = "merge" /\ last.ok /\ last.args.verify_sources) =>
        \A sec \in ActiveSections : \A i \in 1..Len(Post[sec]) :
            verify_evidence_sources(Post[sec][i].evidence, WorkspaceRoot)

ProposalIds(p) ==
    UNION {Ids(p.items[sec]) : sec \in ActiveSections}

\* a verified merge kept an item with evidence that its proposal did not
\* mention, next to one it refreshed
C5_Witness ==
    /\ last.op = "merge" /\ last.ok /\ last.args.verify_sources
    /\ \E i \in 1..Len(Post.candidate_moves) :
          /\ Post.candidate_moves[i].id \notin ProposalIds(Get(last.args.proposal))
          /\ Post.candidate_moves[i].evidence # <<>>
    /\ \E i \in 1..Len(Post.hypotheses) :
          Post.hypotheses[i].id \in ProposalIds(Get(last.args.proposal))

\* C2: no item whose text contains the pattern of a rule in do_not_store
\* appears in any section of the persisted model.
MatchesActiveRule(it, m) == matches_do_not_store(TextOf(it), m.do_not_store)

C2_NoSuppressedItemPersisted ==
    Has(modelFile) =>
        \A sec \in AllSections : \A i \in 1..Len(Post[sec]) :
            ~MatchesActiveRule(Post[sec][i], Post)

ActiveIds(file) ==
    IF Has(file) THEN UNION {Ids(Get(file)[sec]) : sec \in ActiveSections} ELSE {}

\* C3: an id that was retracted or went stale and is in no active section
\* is in no active section after any later operation.
C3_RetiredNeverReturns ==
    [][\A id \in retired :
          id \notin ActiveIds(modelFile) => id \notin ActiveIds(modelFile')]_vars

Expired(it, at) == Has(it.expires_at) /\ Get(it.expires_at) < at

IsStaleEntry(e) ==
    e.status = Some("stale") /\ Has(e.confidence) /\ Get(e.confidence) <= StaleConfCap

\* C6 as stated: an expired item of hypotheses, open_loops or
\* candidate_moves whose id the proposal omits leaves its section and has a
\* stale_items entry with status "stale" and confidence <= 0.35.
C6_ExpiredBecomesStale ==
    (last.op = "merge" /\ last.ok /\ Has(last.pre)) =>
        \A sec \in DecaySections : \A i \in 1..Len(Pre[sec]) :
            LET it == Pre[sec][i]
            IN  (Expired(it, last.at)
                   /\ it.id \notin ProposalIds(Get(last.args.proposal))) =>
                    /\ it.id \notin Ids(Post[sec])
                    /\ \E j \in 1..Len(Post.stale_items) :
                          /\ Post.stale_items[j].id = it.id
                          /\ IsStaleEntry(Post.stale_items[j])

\* an entry of the audit trail that wins the de-duplication against it
Outlasts(e, it, sec) ==
    /\ e.id = it.id
    /\ LastSeenKey(e) >= LastSeenKey(it)
    /\ \/ \E k \in 1..Len(Pre.stale_items) : Pre.stale_items[k] = e
       \/ \E other \in DecaySections \ {sec} : it.id \in Ids(Pre[other])

\* C6 amended: such an item, when its text matches no do-not-store rule,
\* leaves its section and stale_items has an entry with its id; the entry
\* has status "stale" and confidence <= 0.35, unless stale_items already
\* held (or the pass demoted from another section) an entry of that id
\* whose last_seen is not earlier, which is then the one kept.
C6_ExpiredUnsuppressedBecomesStale ==
    (last.op = "merge" /\ last.ok /\ Has(last.pre)) =>
        \A sec \in DecaySections : \A i \in 1..Len(Pre[sec]) :
            LET it == Pre[sec][i]
            IN  (Expired(it, last.at)
                   /\ it.id \notin ProposalIds(Get(last.args.proposal))
                   /\ ~MatchesActiveRule(it, Pre)) =>
                    /\ it.id \notin Ids(Post[sec])
                    /\ \E j \in 1..Len(Post.stale_items) :
                          /\ Post.stale_items[j].id = it.id
                          /\ \/ IsStaleEntry(Post.stale_items[j])
                             \/ Outlasts(Post.stale_items[j], it, sec)

\* a merge demoted an expired hypothesis that had confidence above the cap
C6_Witness ==
    /\ last.op = "merge" /\ last.ok /\ Has(last.pre)
    /\ \E i \in 1..Len(Pre.hypotheses) :
          /\ Expired(Pre.hypotheses[i], last.at)
          /\ Pre.hypotheses[i].id \notin ProposalIds(Get(last.args.proposal))
          /\ Get(Pre.hypotheses[i].confidence) > StaleConfCap
          /\ \E j \in 1..Len(Post.stale_items) :
                /\ Post.stale_items[j].id = Pre.hypotheses[i].id
                /\ IsStaleEntry(Post.stale_items[j])

\* C7: after a successful forget(id) or deny(id) that finds its target in
\* hypotheses, open_loops or candidate_moves, the item is gone from that
\* section and stale_items has an entry with the id and status "retracted".
C7_ForgetLeavesAuditEntry ==
    (last.op \in {"forget", "deny"} /\ last.ok /\ last.args.id # ""
       /\ _find_item(Pre, last.args.id).section \in DecaySections) =>
        /\ last.args.id \notin Ids(Post[_find_item(Pre, last.args.id).section])
        /\ \E j \in 1..Len(Post.stale_items) :
              /\ Post.stale_items[j].id = last.args.id
              /\ Post.stale_items[j].status = Some("retracted")

ConfirmSource == Pre[_find_item(Pre, last.args.id).section][_find_item(Pre, last.args.id).index]

\* C8: after a successful confirm(id, fact?, value?) whose source item is in
\* a non-fact section, no non-fact section holds the id and confirmed_facts
\* has gained exactly one entry: that id, the given value, confidence 0.99,
\* status active, the source's domain, first_seen and evidence, and as fact
\* the given text or else the source's statement.
C8_ConfirmPromotes ==
    (last.op = "confirm" /\ last.ok
       /\ _find_item(Pre, last.args.id).section \in ConfirmStrip) =>
        LET n == Len(Pre.confirmed_facts)
            new == Post.confirmed_facts[n + 1]
        IN  /\ \A sec \in ConfirmStrip : last.args.id \notin Ids(Post[sec])
            /\ Len(Post.confirmed_facts) = n + 1
            /\ SubSeq(Post.confirmed_facts, 1, n) = Pre.confirmed_facts
            /\ new.id = last.args.id
            /\ new.value = last.args.value
            /\ new.confidence = Some(9900)
            /\ new.status = Some("active")
            /\ Has(ConfirmSource.domain) => new.domain = ConfirmSource.domain
            /\ new.first_seen = ConfirmSource.first_seen
            /\ new.evidence = ConfirmSource.evidence
            /\ new.fact = IF last.args.fact # <<>> THEN Some(last.args.fact)
                          ELSE ConfirmSource.statement

\* confirm without a fact text promoted a stale-trail entry whose first_seen
\* is older than the confirmation
C8_Witness ==
    /\ last.op = "confirm" /\ last.ok
    /\ _find_item(Pre, last.args.id).section = "stale_items"
    /\ last.args.fact = <<>>
    /\ Post.confirmed_facts # <<>>
    /\ Post.confirmed_facts[Len(Post.confirmed_facts)].first_seen # Some(now_iso(last.at))
    /\ Post.confirmed_facts[Len(Post.confirmed_facts)].evidence # <<>>

\* C9: a consent operation that fails leaves the model file unchanged.
C9_ConsentFailsClosed ==
    (last.op \in ConsentOps /\ ~last.ok) => modelFile = last.pre

\* a forget by substring matched nothing, at an instant whose timestamp
\* differs from the model's updatedAt
C9_Witness ==
    /\ last.op = "forget" /\ ~last.ok
    /\ last.args.match # <<>>
    /\ Has(last.pre)
    /\ Pre.hypotheses # <<>>
    /\ Pre.updatedAt # now_iso(last.at)

NoDuplicateIds(items) ==
    \A i, j \in 1..Len(items) : items[i].id = items[j].id => i = j

\* C10: in every persisted model no two items of one section share an id.
C10_IdsUniquePerSection ==
    Has(modelFile) => \A sec \in AllSections : NoDuplicateIds(Post[sec])

\* the step is a successful build_model run that repeats, at the same
\* instant and with the same command line, the successful run before it
RepeatedMerge ==
    /\ last.op = "merge" /\ last.ok
    /\ last'.op = "merge" /\ last'.ok
    /\ last'.args = last.args
    /\ last'.at = last.at
    /\ nops' = nops + 1

\* C11 (no item lost): merging the same proposal a second time keeps, in
\* every section, every id the first merge left there.
C11_RepeatLosesNoItem ==
    [][RepeatedMerge =>
          \A sec \in AllSections :
              Ids(Get(modelFile)[sec]) \subseteq Ids(Get(modelFile')[sec])]_vars

\* C11: merging the same proposal a second time loses no item and leaves
\* the ids of every section pairwise distinct.
C11_RepeatKeepsItemsAndUniqueIds ==
    [][RepeatedMerge =>
          \A sec \in AllSections :
              /\ Ids(Get(modelFile)[sec]) \subseteq Ids(Get(modelFile')[sec])
              /\ NoDuplicateIds(Get(modelFile')[sec])]_vars

\* the latest invocation is a successful build_model run
MergeDone == last.op = "merge" /\ last.ok /\ Has(modelFile)

\* the items the proposal of the latest run lists in a section
Proposed(sec) == Get(last.args.proposal).items[sec]

\* the section defaults of the TTL, in days
TtlDefault(sec) ==
    CASE sec = "confirmed_facts" -> 365
      [] sec = "hypotheses" -> 21
      [] sec = "open_loops" -> 14
      [] sec = "candidate_moves" -> 7

\* the whole second an instant falls in, as the document's timestamps give it
AsWritten(at) == at - (at % TicksPerSec)

\* C12: after a merge every refreshed item has last_seen at the evaluation
\* instant and expires_at at that instant plus its ttl_days days: the
\* item's own ttl_days if the proposal gives one, else the section default,
\* floored at one day (a given ttl_days of 0 or less resolves to 1).
C12_RefreshedExpiryFromGivenTtl ==
    MergeDone =>
        \A sec \in ActiveSections : \A i \in 1..Len(Post[sec]) :
            \A k \in 1..Len(Proposed(sec)) :
                Proposed(sec)[k].id = Post[sec][i].id =>
                    /\ Post[sec][i].last_seen = Some(AsWritten(last.at))
                    /\ Post[sec][i].expires_at =
                         Some(AsWritten(last.at)
                              + (IF ~Has(Proposed(sec)[k].ttl_days)
                                 THEN TtlDefault(sec)
                                 ELSE IF Get(Proposed(sec)[k].ttl_days) < 1 THEN 1
                                 ELSE Get(Proposed(sec)[k].ttl_days)) * Day)

\* C12, with a ttl_days of 0 read as "not given": the same statement holds
\* when the section default also stands in for a given ttl_days of 0.
C12_RefreshedExpiryZeroAsAbsent ==
    MergeDone =>
        \A sec \in ActiveSections : \A i \in 1..Len(Post[sec]) :
            \A k \in 1..Len(Proposed(sec)) :
                Proposed(sec)[k].id = Post[sec][i].id =>
                    /\ Post[sec][i].last_seen = Some(AsWritten(last.at))
                    /\ Post[sec][i].expires_at =
                         Some(AsWritten(last.at)
                              + (IF ~Has(Proposed(sec)[k].ttl_days)
                                    \/ Get(Proposed(sec)[k].ttl_days) = 0
                                 THEN TtlDefault(sec)
                                 ELSE IF Get(Proposed(sec)[k].ttl_days) < 1 THEN 1
                                 ELSE Get(Proposed(sec)[k].ttl_days)) * Day)

\* the latest successful build_model run found a model file
MergeOver == MergeDone /\ Has(last.pre)

\* the item's id is not listed by the proposal of the latest run in sec
Omitted(it, sec) == \A k \in 1..Len(Proposed(sec)) : Proposed(sec)[k].id # it.id

SameLifecycle(a, b) ==
    /\ a.id = b.id
    /\ a.first_seen = b.first_seen
    /\ a.last_seen = b.last_seen
    /\ a.expires_at = b.expires_at
    /\ a.status = b.status
    /\ a.confidence = b.confidence

\* C13: an item the proposal omits, as long as it stays in its active
\* section, keeps first_seen, last_seen, expires_at, status and confidence
\* exactly as they were persisted before the merge.
C13_OmittedItemUntouched ==
    MergeOver =>
        \A sec \in ActiveSections : \A i \in 1..Len(Pre[sec]) :
            (/\ Omitted(Pre[sec][i], sec)
             /\ Pre[sec][i].id \in Ids(Post[sec]))
                => \E j \in 1..Len(Post[sec]) :
                       SameLifecycle(Pre[sec][i], Post[sec][j])

\* a merge run later than an omitted non-fact item's last_seen left the item
\* in its section
C13_Witness ==
    /\ MergeOver
    /\ \E sec \in DecaySections : \E i \in 1..Len(Pre[sec]) :
           /\ Omitted(Pre[sec][i], sec)
           /\ Pre[sec][i].id \in Ids(Post[sec])
           /\ Has(Pre[sec][i].last_seen)
           /\ Get(Pre[sec][i].last_seen) + Day < last.at

\* C14: for every evidence list, both flags and every evaluation time,
\* confidence_formula returns a value c with 0.05 <= c <= 0.99.
C14_ScoreReturnedInRange ==
    (call.fn = "confidence_formula" /\ call.done) =>
        /\ ~call.raised
        /\ call.value >= 500
        /\ call.value <= 9900

\* C14, for the calls that return: the value returned lies in [0.05, 0.99].
C14_ReturnedScoreInRange ==
    (call.fn = "confidence_formula" /\ call.done /\ ~call.raised) =>
        /\ call.value >= 500
        /\ call.value <= 9900

\* some build_model command line lists the fact with this very confidence
ConfidenceStated(fact) ==
    \E a \in MergeInputs :
        /\ Has(a.proposal)
        /\ \E k \in 1..Len(Get(a.proposal).items.confirmed_facts) :
               /\ Get(a.proposal).items.confirmed_facts[k].id = fact.id
               /\ Has(Get(a.proposal).items.confirmed_facts[k].confidence)
               /\ Get(a.proposal).items.confirmed_facts[k].confidence = fact.confidence

\* C15: in every persisted model every item has an expires_at, every
\* non-fact item has a confidence in [0.05, 0.99], and every confirmed fact
\* has confidence 0.99 unless a proposal stated another one for it.
C15_PersistedItemsBounded ==
    Has(modelFile) =>
        /\ \A sec \in AllSections : \A i \in 1..Len(Post[sec]) :
               Has(Post[sec][i].expires_at)
        /\ \A sec \in AllSections \ {"confirmed_facts"} : \A i \in 1..Len(Post[sec]) :
               /\ Has(Post[sec][i].confidence)
               /\ Get(Post[sec][i].confidence) >= 500
               /\ Get(Post[sec][i].confidence) <= 9900
        /\ \A i \in 1..Len(Post.confirmed_facts) :
               \/ Post.confirmed_facts[i].confidence = Some(9900)
               \/ ConfidenceStated(Post.confirmed_facts[i])

\* a persisted model holds a non-fact item whose score was cut down to
\* 0.99, a demoted entry in stale_items, and a fact of stated confidence
C15_Witness ==
    /\ Has(modelFile)
    /\ \E i \in 1..Len(Post.candidate_moves) :
           /\ Post.candidate_moves[i].confidence = Some(9900)
           /\ Len(Post.candidate_moves[i].evidence) = 5
    /\ \E i \in 1..Len(Post.stale_items) : Post.stale_items[i].status = Some("stale")
    /\ \E i \in 1..Len(Post.confirmed_facts) :
           Post.confirmed_facts[i].confidence = Some(7000)

\* an invocation that replaced the model file
ModelWritten ==
    \/ modelFile' # modelFile
    \/ (last' # last /\ last'.ok)

\* C16: the model file is only ever replaced by a document that passes the
\* model schema, in the merge and in the consent path alike, and a merge
\* that writes had a proposal that passes the proposal schema; the copy
\* written to the snapshot path is that same validated document.
C16_WriteOnlyAfterValidation ==
    [][ModelWritten =>
          /\ Has(modelFile')
          /\ ModelSchemaOk(Get(modelFile'))
          /\ last'.ok
          /\ (last'.op = "merge" =>
                 /\ Has(last'.args.proposal)
                 /\ ProposalSchemaOk(Get(last'.args.proposal))
                 /\ (last'.args.snapshot_out => snapshotFile' = modelFile'))]_vars

\* a consent operation has rewritten a model that a merge had persisted
C16_Witness ==
    /\ last.op \in ConsentOps
    /\ last.ok
    /\ Has(last.pre)
    /\ modelFile # last.pre
    /\ ModelSchemaOk(Get(modelFile))

\* C17: while atomic_write_json runs, and whatever step a crash stops it
\* at, the destination path holds the whole previous document or the whole
\* new one; until the rename it holds the previous one.
C17_ReaderSeesWholeDocument ==
    call.fn = "atomic_write_json" =>
        /\ \/ call.dest = call.prev
           \/ call.dest = Some(FileText(call.text))
        /\ call.pc \in {"mkstemp", "dump"} => call.dest = call.prev
        /\ Has(call.dest) => \E tx \in JsonTexts : Get(call.dest) = FileText(tx)

\* the process died with the temporary file half written while the path
\* held an earlier document
C17_Witness ==
    /\ call.fn = "atomic_write_json"
    /\ call.crashed
    /\ Has(call.prev)
    /\ Has(call.tmp)
    /\ Len(Get(call.tmp)) > 0
    /\ Len(Get(call.tmp)) < Len(FileText(call.text))
    /\ Get(call.prev) # FileText(call.text)

\* the scope the loop of nightly_run is at
NightlyAt == NightlyScopes[call.idx]

\* C18: a run writes the real model.json of a scope only in phase 2, with
\* no .disabled marker, with a proposal that exists and passes the schema,
\* and after the dry-run build and the diff of that scope succeeded; in
\* phase 1 or with the marker every scope keeps the model.json the run found.
C18_RealWriteIsGated ==
    [][call.fn = "nightly_run" =>
          /\ (call'.real # call.real \/ call'.wrote # call.wrote) =>
                /\ call.phase = 2
                /\ ~call.disabled
                /\ Has(call.proposals[NightlyAt])
                /\ ProposalSchemaOk(Get(call.proposals[NightlyAt]))
                /\ Has(call'.tmp[NightlyAt])
                /\ call'.errors[NightlyAt] = ""
                /\ (Has(call.real[NightlyAt]) => call.diff_ok)
                /\ \A sc \in DOMAIN call.real \ {NightlyAt} :
                      call'.real[sc] = call.real[sc]
          /\ (call.phase = 1 \/ call.disabled) =>
                /\ call'.real = call.start
                /\ call'.wrote = {}]_vars

\* a finished run of phase 2 left one scope rewritten over its earlier
\* model and the other, whose proposal was missing or refused, untouched
C18_Witness ==
    /\ call.fn = "nightly_run"
    /\ call.done
    /\ call.phase = 2
    /\ call.wrote = {TargetScope}
    /\ Has(call.start[TargetScope])
    /\ call.real[TargetScope] # call.start[TargetScope]
    /\ call.real[ReposScope] = call.start[ReposScope]
    /\ call.code = 1

\* the ids of a section's items that already carry a first_seen, each held
\* by one item only
FirstSeenSet(items) ==
    {items[i].id : i \in {k \in 1..Len(items) :
        /\ Has(items[k].first_seen)
        /\ \A m \in 1..Len(items) : items[m].id = items[k].id => m = k}}

\* every item of after whose id is among ids has the first_seen the item of
\* that id has in before
FirstSeenKept(before, after, ids) ==
    \A i \in 1..Len(before) : \A j \in 1..Len(after) :
        (before[i].id \in ids /\ after[j].id = before[i].id)
            => after[j].first_seen = before[i].first_seen

\* C19: a merge leaves the first_seen of every item it refreshes or carries
\* as persisted, whatever the proposal supplies, and confirm gives the
\* promoted fact the first_seen of its source.
C19_FirstSeenImmutable ==
    /\ MergeOver =>
          \A sec \in ActiveSections :
              FirstSeenKept(Pre[sec], Post[sec], FirstSeenSet(Pre[sec]))
    /\ (last.op = "confirm" /\ last.ok
          /\ _find_item(Pre, last.args.id).section \in ConfirmStrip) =>
          Post.confirmed_facts[Len(Post.confirmed_facts)].first_seen
              = ConfirmSource.first_seen

\* the same, for the items whose proposal entry carries no first_seen
C19_FirstSeenKeptUnlessProposed ==
    /\ MergeOver =>
          \A sec \in ActiveSections :
              FirstSeenKept(Pre[sec], Post[sec],
                  {id \in FirstSeenSet(Pre[sec]) :
                      \A k \in 1..Len(Proposed(sec)) :
                          Proposed(sec)[k].id = id
                              => ~Has(Proposed(sec)[k].first_seen)})
    /\ (last.op = "confirm" /\ last.ok
          /\ _find_item(Pre, last.args.id).section \in ConfirmStrip) =>
          Post.confirmed_facts[Len(Post.confirmed_facts)].first_seen
              = ConfirmSource.first_seen

\* a fact of the model before the latest merge that the proposal leaves out
\* and no do-not-store rule matches
CarriedFact(f) ==
    /\ Omitted(f, "confirmed_facts")
    /\ ~MatchesActiveRule(f, Pre)

\* C20: a merge leaves every confirmed fact that its proposal omits and no
\* do-not-store rule matches in confirmed_facts with status, confidence,
\* last_seen and expires_at as they were, expired or not, and adds no copy of
\* it to stale_items.
C20_FactsNeverDecay ==
    MergeOver =>
        \A i \in 1..Len(Pre.confirmed_facts) :
            CarriedFact(Pre.confirmed_facts[i]) =>
                /\ \E j \in 1..Len(Post.confirmed_facts) :
                       SameLifecycle(Pre.confirmed_facts[i], Post.confirmed_facts[j])
                /\ \A j \in 1..Len(Post.stale_items) :
                       Post.stale_items[j].id = Pre.confirmed_facts[i].id =>
                           \/ ~Has(Post.stale_items[j].fact)
                           \/ \E k \in 1..Len(Pre.stale_items) :
                                  Pre.stale_items[k] = Post.stale_items[j]

\* a merge ran over a fact that its proposal omits and whose expires_at had
\* passed
C20_Witness ==
    /\ MergeOver
    /\ \E i \in 1..Len(Pre.confirmed_facts) :
           /\ CarriedFact(Pre.confirmed_facts[i])
           /\ Has(Pre.confirmed_facts[i].expires_at)
           /\ Get(Pre.confirmed_facts[i].expires_at) < AsWritten(last.at)
           /\ \E j \in 1..Len(Post.confirmed_facts) :
                  Post.confirmed_facts[j] = Pre.confirmed_facts[i]

\* the ids of the stale_items of a model file, none when there is no file
StaleIds(file) == IF Has(file) THEN Ids(Get(file).stale_items) ELSE {}

\* C21 as stated: an id once in stale_items is in stale_items after every
\* later successful merge or consent operation.
C21_StaleTrailOnlyGrows ==
    [][StaleIds(modelFile) \subseteq StaleIds(modelFile')]_vars

\* C21: an id once in stale_items is in stale_items after every later
\* successful merge, dont-store, deny and forget, and after every confirm
\* of another id.
C21_StaleTrailGrowsButForConfirm ==
    [][\A id \in StaleIds(modelFile) :
          \/ id \in StaleIds(modelFile')
          \/ (last'.op = "confirm" /\ last'.ok /\ last'.args.id = id)]_vars

\* a merge and a forget both ran over a model whose stale_items held an
\* entry, which is still there
C21_Witness ==
    /\ last.op = "forget" /\ last.ok
    /\ Has(last.pre)
    /\ StaleIds(last.pre) # {}
    /\ StaleIds(last.pre) \subseteq StaleIds(modelFile)
    /\ \E j \in 1..Len(Post.stale_items) : Post.stale_items[j].status = Some("retracted")

\* the resolved file is the directory ws or lies below it
InsideWorkspace(full, ws) == full = ws \/ StartsWith(full, ws \o <<"/">>)

\* C22: when verify_evidence_sources accepts a list, the resolved path of
\* every entry lies inside the workspace root directory.
C22_AcceptedPathsInsideWorkspace ==
    (call.fn = "verify_evidence_sources" /\ call.done /\ call.accepted) =>
        \A i \in 1..Len(call.evidence) :
            InsideWorkspace(ResolveUnder(WorkspaceRoot, call.evidence[i].path),
                            WorkspaceRoot)

\* the number of lines of a file
LineCount(content) ==
    IF content = <<>> THEN 0 ELSE LineOfPos(content, Len(content))

\* one of the defects of an evidence entry, quote being the text looked for
Defective(ev, quote) ==
    \/ ev.path = <<>>
    \/ ~IsFile(ResolveUnder(WorkspaceRoot, ev.path))
    \/ ~parse_lines_spec(ev.lines).ok
    \/ parse_lines_spec(ev.lines).b
          > LineCount(FileContent(ResolveUnder(WorkspaceRoot, ev.path)))
    \/ ev.quote = <<>>
    \/ ~QuoteIsCited(ev, quote)

DenyLists == {"hypotheses", "open_loops", "candidate_moves", "confirmed_facts"}

\* C24: after a successful deny(id) no item with that id and a status other
\* than retracted is left in hypotheses, open_loops, candidate_moves or
\* confirmed_facts, and none of these lists holds a retracted item.
C24_DenyRetractsEverywhere ==
    (last.op = "deny" /\ last.ok) =>
        \A sec \in DenyLists : \A i \in 1..Len(Post[sec]) :
            /\ Post[sec][i].id = last.args.id
                  => Post[sec][i].status = Some("retracted")
            /\ Post[sec][i].status # Some("retracted")

\* the same for the target deny finds: the first item with the id, in the
\* order hypotheses, stale_items, open_loops, candidate_moves,
\* confirmed_facts, is retracted, and leaves its list unless it is a fact
C24_DenyRetractsFirstFound ==
    (last.op = "deny" /\ last.ok) =>
        LET f == _find_item(Pre, last.args.id)
        IN  /\ f.found
            /\ f.section \in DecaySections =>
                  Len(Post[f.section]) = Len(Pre[f.section]) - 1
            /\ f.section \in {"stale_items", "confirmed_facts"} =>
                  Post[f.section][f.index].status = Some("retracted")

\* the latest invocation is a successful forget by substring
ForgetMatched == last.op = "forget" /\ last.ok /\ last.args.id = "" /\ Has(last.pre)

\* the item's statement, else fact, contains the substring of the latest
\* invocation, letter case apart
ContainsMatch(it) == IsSubstr(Lower(last.args.match), Lower(TextOf(it)))

\* C25: after forget with a substring every item of the model whose text
\* contains it is held with status retracted, in its section or in
\* stale_items, every other item is as it was, and a forget that matches
\* nothing writes nothing.
C25_ForgetRetractsEveryMatch ==
    /\ ForgetMatched =>
          \A sec \in AllSections : \A i \in 1..Len(Pre[sec]) :
              IF ContainsMatch(Pre[sec][i])
              THEN \E s2 \in {sec, "stale_items"} : \E j \in 1..Len(Post[s2]) :
                       Post[s2][j] = [Pre[sec][i] EXCEPT !.status = Some("retracted")]
              ELSE \E j \in 1..Len(Post[sec]) : Post[sec][j] = Pre[sec][i]
    /\ (last.op = "forget" /\ ~last.ok) => modelFile = last.pre

\* what holds of the lists: stale_items and confirmed_facts keep their
\* length, with the matching items retracted in place and the others as
\* they were; hypotheses, open_loops and candidate_moves keep exactly their
\* items that do not match
C25_ForgetMatchLists ==
    /\ ForgetMatched =>
          /\ \A sec \in {"stale_items", "confirmed_facts"} :
                /\ Len(Post[sec]) = Len(Pre[sec])
                /\ \A i \in 1..Len(Pre[sec]) :
                      Post[sec][i] = IF ContainsMatch(Pre[sec][i])
                                     THEN [Pre[sec][i] EXCEPT !.status = Some("retracted")]
                                     ELSE Pre[sec][i]
          /\ \A sec \in DecaySections :
                Post[sec] = SelectSeq(Pre[sec], LAMBDA it : ~ContainsMatch(it))
          /\ \E sec \in AllSections : \E i \in 1..Len(Pre[sec]) :
                ContainsMatch(Pre[sec][i])
    /\ (last.op = "forget" /\ ~last.ok) => modelFile = last.pre

\* the ids of the lines of one category
LineIds(lines) == {lines[i].id : i \in 1..Len(lines)}

\* the ids of a snapshot, over its five sections
SnapshotIds(m) == UNION {Ids(m[sec]) : sec \in AllSections} \ {""}

\* the item carrying the id in a snapshot (ids are unique in these snapshots)
ItemOf(m, id) ==
    CHOOSE it \in UNION {{m[sec][i] : i \in 1..Len(m[sec])} : sec \in AllSections} :
        it.id = id

BecameRetracted(id) ==
    /\ id \in SnapshotIds(call.prev) /\ id \in SnapshotIds(call.cur)
    /\ ItemOf(call.cur, id).status = Some("retracted")
    /\ ItemOf(call.prev, id).status # Some("retracted")

\* the classification of the ids, the updated test being given
Classified(differs(_, _)) ==
    \A id \in SnapshotIds(call.prev) \cup SnapshotIds(call.cur) :
        /\ id \in LineIds(call.out.added) <=> id \notin SnapshotIds(call.prev)
        /\ id \in LineIds(call.out.retracted) <=>
              (BecameRetracted(id) \/ id \notin SnapshotIds(call.cur))
        /\ id \in LineIds(call.out.updated) <=>
              /\ id \in SnapshotIds(call.prev) /\ id \in SnapshotIds(call.cur)
              /\ ~BecameRetracted(id)
              /\ differs(ItemOf(call.cur, id), ItemOf(call.prev, id))
        /\ Cardinality({cat \in {"added", "updated", "retracted"} :
                           id \in LineIds(call.out[cat])}) <= 1

\* C26: model_diff puts an id under added iff the previous snapshot lacks
\* it, under retracted iff its status became retracted or the current
\* snapshot lacks it, under updated iff both hold it and it differs in
\* statement, fact, value, confidence, status or expires_at, and under at
\* most one of the three.
C26_DiffClassifies ==
    (call.fn = "model_diff" /\ call.done) => Classified(ChangedWithFact)

\* the same with the fields the code compares: statement, value,
\* confidence, status and expires_at
C26_DiffClassifiesComparedFields ==
    (call.fn = "model_diff" /\ call.done) => Classified(Changed)

\* the lines printed under one tag
PrintedWith(tag) == SelectSeq(call.out.printed, LAMBDA l : l.tag = tag)

\* the cap of the run: --cap, else 10; a negative cap prints nothing
CapOfRun == IF Has(call.cap) THEN Max(0, Get(call.cap)) ELSE 10

\* C27: model_diff prints at most cap lines of each category, cap being 10
\* when not given, and prints "(no material changes)" exactly when the
\* three categories are empty.
C27_DiffOutputCapped ==
    (call.fn = "model_diff" /\ call.done) =>
        /\ \A tag \in {"+", "~", "-"} : Len(PrintedWith(tag)) <= CapOfRun
        /\ Len(PrintedWith("+")) = Min(CapOfRun, Len(call.out.added))
        /\ Len(PrintedWith("~")) = Min(CapOfRun, Len(call.out.updated))
        /\ Len(PrintedWith("-")) = Min(CapOfRun, Len(call.out.retracted))
        /\ Len(PrintedWith("(no material changes)")) <= 1
        /\ Len(PrintedWith("(no material changes)")) = 1 <=>
              /\ call.out.added = <<>>
              /\ call.out.updated = <<>>
              /\ call.out.retracted = <<>>

\* a run without --cap over snapshots with eleven changed open loops printed
\* ten updated lines, and a run with cap 0 over changed snapshots printed
\* nothing
C27_Witness ==
    /\ call.fn = "model_diff" /\ call.done
    /\ \/ /\ ~Has(call.cap)
          /\ Len(call.out.updated) > 10
          /\ Len(PrintedWith("~")) = 10
       \/ /\ call.cap = Some(0)
          /\ call.out.added # <<>>
          /\ call.out.printed = <<>>

\* the range printed by the run
FoundRange == parse_lines_spec(DropFinalNewline(call.out))

\* the lines of the file the run searched
FoundLines == ReadLines(FileContent(ResolveUnder(WorkspaceRoot, call.path)))

\* the quote is made of one line's text (it holds no inner line break)
OneLineQuote ==
    \A i \in 1..Len(Strip(call.quote)) : Strip(call.quote)[i] # "\n"

\* C28: a successful find_quote_lines run prints a range that lies within
\* the file and whose lines hold the quote, and the evidence entry built
\* from it is accepted by verify_evidence_sources.
C28_FoundRangeVerifies ==
    (call.fn = "find_quote_lines" /\ call.pc = "verified") =>
        /\ FoundRange.ok
        /\ FoundRange.b <= Len(FoundLines)
        /\ IsSubstr(Strip(call.quote),
                    CitedSnippet(FoundLines, FoundRange.a, FoundRange.b))
        /\ call.accepted

\* C28 for quotes that lie on one line
C28_FoundRangeVerifiesOneLine ==
    (call.fn = "find_quote_lines" /\ call.pc = "verified" /\ OneLineQuote) =>
        /\ FoundRange.ok
        /\ FoundRange.b <= Len(FoundLines)
        /\ IsSubstr(Strip(call.quote),
                    CitedSnippet(FoundLines, FoundRange.a, FoundRange.b))
        /\ call.accepted

\* the score without a recency term, for the finished call
ScoreWithoutRecency ==
    clamp(2000 + (1200 * Min(5, Len(call.evidence)))
            + (IF Len(call.evidence) >= 2 THEN 1500 ELSE 0)
            + (IF call.user_confirmed THEN 2000 ELSE 0)
            - (IF call.conflicts THEN 2500 ELSE 0),
          500, 9900)

\* every timestamp of the scored list is of one of the given kinds
StampsAmong(kinds) ==
    \A i \in 1..Len(call.evidence) : call.evidence[i].ts.kind \in kinds

\* C29: when every evidence timestamp is missing or malformed, the value of
\* confidence_formula is clamp(0.05, 0.99, 0.20 + 0.12*min(5, n)
\* + (0.15 if n >= 2) + (0.20 if user_confirmed) - (0.25 if conflicts)).
C29_UnparseableStampsAddNothing ==
    (call.fn = "confidence_formula" /\ call.done /\ StampsAmong({"none", "bad"})) =>
        /\ ~call.raised
        /\ call.value = ScoreWithoutRecency

\* C29 for lists whose timestamps are all missing
C29_MissingStampsAddNothing ==
    (call.fn = "confidence_formula" /\ call.done /\ StampsAmong({"none"})) =>
        /\ ~call.raised
        /\ call.value = ScoreWithoutRecency

\* the sections of the latest merge as the decay pass found them
BeforeDecay ==
    ProcessedSections(IF Has(last.pre) THEN Pre
                      ELSE ensure_model_skeleton(last.args.scope, last.at),
                      Get(last.args.proposal).items, last.args.verify_sources,
                      last.at)

\* the audit trail holds an entry of the id with the given status
TrailHolds(id, status) ==
    \E j \in 1..Len(Post.stale_items) :
        Post.stale_items[j].id = id /\ Post.stale_items[j].status = Some(status)

\* C30: an item of hypotheses, open_loops or candidate_moves that carries
\* status retracted when the decay pass runs is removed from its section,
\* and after the merge stale_items holds an entry with its id and status
\* "retracted", whatever its expires_at.
C30_RetractedMovesToTrail ==
    MergeDone =>
        \A sec \in DecaySections : \A i \in 1..Len(BeforeDecay[sec].items) :
            LET it == BeforeDecay[sec].items[i]
            IN  IsRetracted(it) =>
                    /\ \A k \in 1..Len(Post[sec]) : Post[sec][k].id # it.id
                    /\ TrailHolds(it.id, "retracted")

\* a merge whose proposal tagged the hypothesis h1 retracted, with an expiry
\* still ahead, left it out of hypotheses and in the audit trail
C30_Witness ==
    /\ MergeDone
    /\ \E i \in 1..Len(BeforeDecay.hypotheses.items) :
          LET it == BeforeDecay.hypotheses.items[i]
          IN  /\ IsRetracted(it)
              /\ ~Expired(it, last.at)
              /\ it.id \notin Ids(Post.hypotheses)
              /\ TrailHolds(it.id, "retracted")

\* the audit trail as the de-duplication of the latest merge found it: the
\* persisted entries, then the entries demoted from the three sections
TrailCandidates ==
    (IF Has(last.pre) THEN Pre.stale_items ELSE <<>>)
      \o MovedToStale(BeforeDecay.hypotheses.items, last.at)
      \o MovedToStale(BeforeDecay.open_loops.items, last.at)
      \o MovedToStale(BeforeDecay.candidate_moves.items, last.at)

\* position k holds the winner of its id: no entry of the id has a later
\* last_seen, and every earlier entry of the id has an earlier one
WinsItsId(cands, k) ==
    /\ \A j \in 1..Len(cands) :
          cands[j].id = cands[k].id => LastSeenKey(cands[j]) <= LastSeenKey(cands[k])
    /\ \A j \in 1..(k - 1) :
          cands[j].id = cands[k].id => LastSeenKey(cands[j]) < LastSeenKey(cands[k])

\* C31: after every merge stale_items holds at most one entry per id, and
\* the entry kept for an id is the one of greatest last_seen among the
\* persisted entries and the entries demoted in the pass, the earlier one
\* winning ties.
C31_TrailKeepsLatestPerId ==
    MergeDone =>
        /\ \A i, j \in 1..Len(Post.stale_items) :
              Post.stale_items[i].id = Post.stale_items[j].id => i = j
        /\ \A k \in 1..Len(TrailCandidates) :
              WinsItsId(TrailCandidates, k) =>
                  \E i \in 1..Len(Post.stale_items) :
                      Post.stale_items[i] = TrailCandidates[k]
        /\ \A i \in 1..Len(Post.stale_items) :
              \E k \in 1..Len(TrailCandidates) :
                  /\ WinsItsId(TrailCandidates, k)
                  /\ Post.stale_items[i] = TrailCandidates[k]

\* a merge found two entries of one id, the later one with the later
\* last_seen, and kept that one
C31_Witness ==
    /\ MergeDone
    /\ \E j, k \in 1..Len(TrailCandidates) :
          /\ j < k
          /\ TrailCandidates[j].id = TrailCandidates[k].id
          /\ LastSeenKey(TrailCandidates[j]) < LastSeenKey(TrailCandidates[k])
          /\ \E i \in 1..Len(Post.stale_items) :
                Post.stale_items[i] = TrailCandidates[k]

\* the model the latest merge started from
MergeBase ==
    IF Has(last.pre) THEN Pre ELSE ensure_model_skeleton(last.args.scope, last.at)

\* the latest run was a build_model run that got as far as process_section
MergeProcessed ==
    /\ last.op = "merge"
    /\ Has(last.args.proposal)
    /\ ProposalSchemaOk(Get(last.args.proposal))
    /\ Get(last.args.proposal).scope = last.args.scope

\* the merged list of a section, as process_section found it
MergedList(sec) == _merge_list(MergeBase[sec], Proposed(sec))

Suppressed(it) == matches_do_not_store(TextOf(it), MergeBase.do_not_store)

\* an item that passes the filter and makes the run fail
Culprit(it, sec) ==
    /\ ~Suppressed(it)
    /\ \/ last.args.verify_sources
            /\ ~verify_evidence_sources(it.evidence, WorkspaceRoot)
       \/ ScoringRaises(it, sec)
       \/ ~ModelItemOk(ProcessItem(it, sec, last.at))

\* C32: an item matching a do-not-store rule is dropped before its evidence
\* is verified and before normalisation: a merge fails over the items only
\* because of one that passed the filter, and a suppressed item is in no
\* active section of the output and gives stale_items no entry.
C32_SuppressedDroppedFirst ==
    MergeProcessed =>
        /\ ~last.ok =>
              \E sec \in ActiveSections : \E i \in 1..Len(MergedList(sec)) :
                  Culprit(MergedList(sec)[i], sec)
        /\ last.ok =>
              \A sec \in ActiveSections : \A i \in 1..Len(MergedList(sec)) :
                  LET it == MergedList(sec)[i]
                  IN  Suppressed(it) =>
                        /\ it.id \notin Ids(Post[sec])
                        /\ \A j \in 1..Len(Post.stale_items) :
                              (/\ Post.stale_items[j].id = it.id
                               /\ TextOf(Post.stale_items[j]) = TextOf(it)) =>
                                  \E k \in 1..Len(Pre.stale_items) :
                                      Pre.stale_items[k] = Post.stale_items[j]

\* a merge whose proposal listed a suppressed hypothesis with evidence that
\* does not verify, verification on, succeeded and left the id out
C32_Witness ==
    /\ MergeProcessed /\ last.ok /\ last.args.verify_sources
    /\ \E i \in 1..Len(MergedList("hypotheses")) :
          LET it == MergedList("hypotheses")[i]
          IN  /\ Suppressed(it)
              /\ ~verify_evidence_sources(it.evidence, WorkspaceRoot)
              /\ it.id \notin Ids(Post.hypotheses)
              /\ it.id \notin Ids(Post.stale_items)

\* the ids of the sections that hold no confirmed fact
NonFactIds(m) ==
    Ids(m.hypotheses) \cup Ids(m.stale_items) \cup Ids(m.open_loops)
      \cup Ids(m.candidate_moves)

\* C33: confirm resolves its source among the non-fact sections only: on an
\* id that is in confirmed_facts alone it fails and writes nothing, and it
\* never appends a fact whose id confirmed_facts already holds.
C33_ConfirmSourceIsNonFact ==
    (last.op = "confirm" /\ Has(last.pre)) =>
        /\ (last.args.id \notin NonFactIds(Pre)) => (~last.ok /\ modelFile = last.pre)
        /\ last.ok => (last.args.id \notin Ids(Pre.confirmed_facts))

\* C33 for ids that no confirmed fact carries
C33_ConfirmOfUnknownIdFails ==
    (last.op = "confirm" /\ Has(last.pre)
       /\ last.args.id \notin Ids(Pre.confirmed_facts)
       /\ last.args.id \notin NonFactIds(Pre)) =>
        (~last.ok /\ modelFile = last.pre)

\* C34: a merge never changes do_not_store: after a successful merge the
\* list equals the one before it; rules are added by dont-store only and
\* none is ever removed.
C34_MergeKeepsRules ==
    (last.ok /\ Has(last.pre) /\ Has(modelFile)) =>
        /\ last.op = "merge" => (Post.do_not_store = Pre.do_not_store)
        /\ last.op # "dont-store" => (Post.do_not_store = Pre.do_not_store)
        /\ Len(Pre.do_not_store) <= Len(Post.do_not_store)
        /\ SubSeq(Post.do_not_store, 1, Len(Pre.do_not_store)) = Pre.do_not_store

\* a merge over a model that held a rule succeeded and the rule is there
C34_Witness ==
    /\ MergeOver
    /\ Pre.do_not_store # <<>>
    /\ Post.do_not_store = Pre.do_not_store
    /\ Proposed("hypotheses") # <<>>

\* a model with its timestamps blanked
UntimedItem(it) ==
    [it EXCEPT !.first_seen = None, !.last_seen = None, !.expires_at = None,
               !.last_confirmed = None]

Untimed(m) ==
    [m EXCEPT !.updatedAt = 0,
              !.confirmed_facts = [i \in 1..Len(@) |-> UntimedItem(@[i])],
              !.hypotheses = [i \in 1..Len(@) |-> UntimedItem(@[i])],
              !.open_loops = [i \in 1..Len(@) |-> UntimedItem(@[i])],
              !.candidate_moves = [i \in 1..Len(@) |-> UntimedItem(@[i])],
              !.stale_items = [i \in 1..Len(@) |-> UntimedItem(@[i])]]

\* C35: for each scope whose real model the run wrote, the model built in
\* the dry-run step (model.tmp.json) equals, timestamps apart, the model
\* the apply step wrote to model.json.
C35_DryRunEqualsApply ==
    call.fn = "nightly_run" =>
        \A scope \in call.wrote :
            Untimed(Get(call.tmp[scope])) = Untimed(Get(call.real[scope]))

\* C35 for the scopes that had no model.json when the run started
C35_DryRunEqualsFirstApply ==
    call.fn = "nightly_run" =>
        \A scope \in call.wrote :
            ~Has(call.start[scope]) =>
                Untimed(Get(call.tmp[scope])) = Untimed(Get(call.real[scope]))

\* the outcomes of the two build_model runs of a scope
DryBuild(scope) == build_model(None, call.proposals[scope], scope, TRUE, now)
ApplyBuild(scope) ==
    build_model(call.start[scope], call.proposals[scope], scope, TRUE, now)

\* a step of the scope fails: proposal missing or invalid, dry-run build
\* failed or timed out, diff failed, or apply failed
ScopeStepFails(scope) ==
    \/ ~Has(call.proposals[scope])
    \/ ~ProposalSchemaOk(Get(call.proposals[scope]))
    \/ call.hang = scope
    \/ ~DryBuild(scope).ok
    \/ Has(call.start[scope]) /\ ~call.diff_ok
    \/ call.phase = 2 /\ ~call.disabled /\ ~ApplyBuild(scope).ok

NightlyScopeSet == {NightlyScopes[i] : i \in 1..Len(NightlyScopes)}

\* what C36 asks of a finished run
ScopesIsolated ==
    /\ call.idx > Len(NightlyScopes)
    /\ \A scope \in NightlyScopeSet :
          IF ScopeStepFails(scope)
          THEN /\ call.errors[scope] # ""
               /\ call.real[scope] = call.start[scope]
               /\ call.code # 0
          ELSE call.errors[scope] = ""
    /\ call.code = 0 => \A scope \in NightlyScopeSet : ~ScopeStepFails(scope)

\* C36: in a run over several scopes a failing step of one scope (missing
\* or invalid proposal, failed or timed-out build or diff) leaves a
\* non-empty error.log and the real model unwritten, the other scopes are
\* still processed, and the run exits non-zero; a scope that succeeds has
\* an empty error.log, and the run exits 0 only if every scope succeeded.
C36_ScopeFailuresIsolated ==
    (call.fn = "nightly_run" /\ call.done) => ScopesIsolated

\* C36 for the runs in which no step outlasts its timeout
C36_ScopeFailuresIsolatedNoTimeout ==
    (call.fn = "nightly_run" /\ call.done /\ call.hang = "") => ScopesIsolated

\* both runs have ended
RaceOver == call.fn = "race" /\ \A p \in Racers : call.proc[p].pc \in {"done", "failed"}

\* the run whose os.replace came last
LastRenamer == call.order[Len(call.order)]

\* C37: when two merges race for one model path, the persisted model is at
\* every moment one whole document, and in the end it is exactly the output
\* of the run whose rename came last, computed from the model that run
\* read: the other run's output is not in it.
C37_LastRenameWins ==
    call.fn = "race" =>
        /\ Has(call.file) => Whole(Get(call.file))
        /\ call.file = call.start
             \/ \E p \in Racers : call.file = Some(FileOf(call.proc[p].out.model))
        /\ (RaceOver /\ call.order # <<>>) =>
              /\ call.file = Some(FileOf(call.proc[LastRenamer].out.model))
              /\ call.proc[LastRenamer].out =
                     build_model(call.proc[LastRenamer].read,
                                 call.proc[LastRenamer].proposal,
                                 TargetScope, TRUE, now)

\* both runs read the model before either renamed, their outputs differ,
\* both renamed, and the file is the output of the second
C37_Witness ==
    /\ RaceOver
    /\ Len(call.order) = 2
    /\ call.proc[1].read = call.proc[2].read
    /\ call.proc[1].out.model # call.proc[2].out.model
    /\ call.file = Some(FileOf(call.proc[LastRenamer].out.model))
    /\ call.file # Some(FileOf(call.proc[call.order[1]].out.model))

AllItems(m) ==
    m.confirmed_facts \o m.hypotheses \o m.open_loops \o m.candidate_moves
      \o m.stale_items

NoTransients(it) ==
    it.ttl_days = None /\ it.user_confirmed = None /\ it.conflicts = None

NoMarkers(it) == it.refreshed = None /\ it.keep_first_seen = None

\* the entries the latest merge wrote for the refreshed items of a
\* non-fact section: in the section, or demoted from it in the same pass
WrittenRefreshed(sec) ==
    SelectSeq(Post[sec] \o Post.stale_items,
              LAMBDA it : /\ it.id \in Ids(Proposed(sec))
                          /\ it.last_seen = Some(AsWritten(last.at)))

\* C38: no non-fact item a merge writes for a refreshed entry carries
\* ttl_days, user_confirmed or conflicts, and no persisted item of any
\* section, stale_items included, carries _refreshed or _keep_first_seen.
C38_NoTransientsPersisted ==
    /\ MergeDone =>
          \A sec \in DecaySections : \A i \in 1..Len(WrittenRefreshed(sec)) :
              NoTransients(WrittenRefreshed(sec)[i])
    /\ Has(modelFile) =>
          \A i \in 1..Len(AllItems(Post)) : NoMarkers(AllItems(Post)[i])

\* a merge wrote the refreshed candidate move m1, proposed with a ttl_days
\* and the user's confirmation, without either
C38_Witness ==
    /\ MergeDone
    /\ \E k \in 1..Len(Proposed("candidate_moves")) :
          /\ Has(Proposed("candidate_moves")[k].ttl_days)
          /\ Has(Proposed("candidate_moves")[k].user_confirmed)
          /\ \E i \in 1..Len(Post.candidate_moves) :
                /\ Post.candidate_moves[i].id = Proposed("candidate_moves")[k].id
                /\ NoTransients(Post.candidate_moves[i])
                /\ NoMarkers(Post.candidate_moves[i])

\* C39: after every successful merge or consent operation none of
\* hypotheses, open_loops and candidate_moves holds an item with status
\* retracted, and after every successful merge none of them holds an item
\* whose expires_at is earlier than the instant of that merge.
C39_ActiveSectionsHoldLiveItems ==
    /\ (last.ok /\ Has(modelFile)) =>
          \A sec \in DecaySections : \A i \in 1..Len(Post[sec]) :
              ~IsRetracted(Post[sec][i])
    /\ MergeDone =>
          \A sec \in DecaySections : \A i \in 1..Len(Post[sec]) :
              ~Expired(Post[sec][i], last.at)

\* a merge found in a section an item past its expiry that the proposal
\* did not list, and the section it wrote is without it
C39_Witness ==
    /\ MergeOver
    /\ \E sec \in DecaySections : \E i \in 1..Len(Pre[sec]) :
          /\ Expired(Pre[sec][i], last.at)
          /\ Omitted(Pre[sec][i], sec)
          /\ Pre[sec][i].id \notin Ids(Post[sec])
          /\ Post[sec] # <<>>

\* the rule a dont-store run builds from its arguments
RuleOf(args, at) ==
    [pattern |-> args.pattern, created_at |-> AsWritten(at),
     domain |-> args.domain, note |-> args.note]

\* C40: a successful dont-store appends exactly one rule (pattern,
\* created_at, and domain and note when given) at the end of do_not_store,
\* keeps the earlier rules in order, and changes nothing else in the model
\* but updatedAt.
C40_DontStoreAppendsOneRule ==
    (last.op = "dont-store" /\ last.ok) =>
        Post = [Pre EXCEPT !.updatedAt = AsWritten(last.at),
                           !.do_not_store = Append(@, RuleOf(last.args, last.at))]

\* a dont-store run with a domain and a note, over a model that held a
\* rule and an item, added its rule after the earlier one
C40_Witness ==
    /\ last.op = "dont-store" /\ last.ok
    /\ Has(last.args.domain) /\ Has(last.args.note)
    /\ Pre.do_not_store # <<>>
    /\ AllItems(Pre) # <<>>
    /\ Len(Post.do_not_store) = Len(Pre.do_not_store) + 1
    /\ Post.do_not_store[Len(Post.do_not_store)].domain = last.args.domain

====
